---- MODULE Spec2Model ----
(***************************************************************************)
(* Aurora load-generation harness (examples/extreme_stress.py and its      *)
(* near-duplicates): the queue-based worker pool, the statistics           *)
(* dictionary guarded by stats_lock, the orchestrator's wait loop, and the *)
(* hand-written HTTP response framer parse_response.                       *)
(***************************************************************************)
EXTENDS Integers, Sequences, FiniteSets, TLC

(* ---------------------------------------------------------------------- *)
(* Sizes of the checked instance.                                          *)
(* ---------------------------------------------------------------------- *)
NUM_CONNECTIONS == 2
TOTAL_REQUESTS == 3
REQUESTS_PER_CONNECTION == 2
LATENCY_CAP == 2
MaxShort == 3
MaxRecords == 10
BASELINE_CONCURRENCY == 1
SPIKE_CONCURRENCY == 2
MaxTime == 5
MaxSamples == 2
REQUESTS_PER_LEVEL == 3
WARMUP_REQUESTS == 1
MaxOutcomes == 4
MaxResponse == 2
MaxFailures == 2
MaxWeight == 2
MixRequests == 5
MixConcurrency == 3
MaxBuilt == 2

Workers == 1..NUM_CONNECTIONS
TaskIds == 1..TOTAL_REQUESTS
NoBody == [present |-> FALSE, len |-> 0]                 \* body=None
None == [id |-> 0, endpoint |-> "", body |-> NoBody]     \* the None put on the queue
ElapsedValues == {3}                                      \* measured latencies, in ms
GetEndpoints == {"/"}                                     \* ENDPOINTS, cut to one path
PostBodySizes == {1}                                      \* POST_BODY_SIZES, cut to one size
BodyLens == {0, 1}                                        \* body lengths parse_response reports

VARIABLES
    request_queue,      \* queue.Queue(): FIFO of tasks and None pills
    running,            \* global stop flag
    stats,              \* the stats dictionary (guarded by stats_lock)
    pc,                 \* pc[w]: position of worker w in its loop
    task,               \* task[w]: the task worker w holds, or None
    sock,               \* sock[w]: "none" (None) | "open" | "unconnected" | "closed" (a closed socket object)
    requests_on_conn,   \* requests_on_conn[w]
    mainpc,             \* position of main(): "wait" | "report"
    served,             \* served[w]: successes on w's current connection (bookkeeping)
    hist,               \* bookkeeping about the run, not read by the program
    wire,               \* the bytes the peer sends in answer to one request
    sent,               \* what the peer meant by them (bookkeeping)
    response,           \* parse_response: response
    fpc,                \* parse_response: "idle" | "header" | "body" | "done"
    content_length,     \* parse_response: content_length
    body_received,      \* parse_response: body_received
    result,             \* parse_response: the value returned
    event,              \* "none" | "eof" | "timeout": what cut the response short (bookkeeping)
    splits,             \* where read boundaries fell: "terminator", "length line" (bookkeeping)
    lpc,                \* lpc[t]: position of thread t, at the grain of lock and blocking calls
    stats_lock,         \* the threads inside `with stats_lock:`
    queue_mutex,        \* the threads inside a get or put of request_queue (its mutex)
    spc,                \* spc[w]: position of staircase worker w (gradual_stress.py)
    level_queue,        \* gradual_stress.py: len(request_queue), a plain list
    queue_lock,         \* gradual_stress.py: the threads inside `with queue_lock:`
    lock,               \* gradual_stress.py: the threads inside `with lock:`
    staircase,          \* gradual_stress.py: the locals of run_gradual_test and of the stress_test call it is in
    harness,            \* which program is started: its pre-flight check differs
    ppc,                \* main() before the run: "probe" | "fill" | "start" | "run" | "exited"
    attempts,           \* failed connection attempts of the pre-flight check so far
    probed,             \* a pre-flight connect has succeeded (bookkeeping)
    started,            \* worker threads started so far
    exit_code,          \* the exit status of the process, once ppc = "exited"
    rpc,                \* the final report of main(): "idle" | "read" | "printed"
    report,             \* its locals after `with stats_lock:` (latencies is no value: it names stats["latencies"])
    report_seen,        \* the stats dictionary as it was inside that with block (bookkeeping)
    printed,            \* the values the final report has used
    mpc,                \* monitor(): "sleep" | "read" | "done"
    mon,                \* its locals after `with stats_lock:`
    mon_seen,           \* the stats dictionary as it was inside that with block (bookkeeping)
    last,               \* monitor(): last_completed, the numerator of the rate last printed,
                        \* and the sum of the numerators printed so far (bookkeeping)
    samples,            \* the latency samples handed to a percentile computation
    reporter,           \* which code computed: "" | "latency_stats" | "final_report" | "stats_printer" | "latency_distribution"
    reported,           \* the percentiles it reported
    sustained,          \* sustained_load.py: the IntervalStats counters and the locals of run_sustained_test
    spike,              \* spike_test.py: the clock, the Stats samples, the workers and the locals of run_spike_test
    mix,                \* endpoint_mix.py, final_benchmark.py: one run of the runner
    built,              \* create_request: the calls made so far, each with its result
    keepalive,          \* sustained_load.py worker(): one keep-alive worker and its connection
    memory,             \* memory_stress.py: the workers, the counters and main()
    workload            \* the weighted endpoint table and the tasks main() has queued

wvars == <<request_queue, running, stats, pc, task, sock, requests_on_conn, mainpc, served, hist>>
fvars == <<wire, sent, response, fpc, content_length, body_received, result, event, splits>>
xvars == <<lpc, stats_lock, queue_mutex>>
svars == <<spc, level_queue, queue_lock, lock, staircase>>
lvars == <<xvars, svars>>
pvars == <<harness, ppc, attempts, probed, started, exit_code>>
rvars == <<rpc, report, report_seen, printed, mpc, mon, mon_seen, last>>
qvars == <<samples, reporter, reported>>
tvars == <<sustained, spike, mix, built, keepalive, memory, workload>>
ovars == <<lvars, pvars, rvars, qvars, tvars>>
lrest == <<wvars, fvars, pvars, rvars, qvars, tvars>>
vars == <<wvars, fvars, ovars>>

(* ---------------------------------------------------------------------- *)
(* Bytes.  A byte string is a sequence of one-character strings.           *)
(* ---------------------------------------------------------------------- *)
CRLF == <<"\r", "\n">>
Terminator == CRLF \o CRLF                                \* b"\r\n\r\n"
Digits == <<"0", "1", "2", "3", "4", "5", "6", "7", "8", "9">>
Whitespace == {" ", "\t", "\r", "\n"}

Min(a, b) == IF a < b THEN a ELSE b

\* str.lower(), on the letters the responses use
Lower(c) ==
    CASE c = "C" -> "c" [] c = "L" -> "l" [] c = "H" -> "h" [] c = "T" -> "t"
      [] c = "P" -> "p" [] c = "O" -> "o" [] c = "K" -> "k" [] c = "S" -> "s"
      [] OTHER -> c

LowerAll(s) == [i \in 1..Len(s) |-> Lower(s[i])]

\* s.startswith(prefix)
StartsWith(s, prefix) ==
    Len(s) >= Len(prefix) /\ SubSeq(s, 1, Len(prefix)) = prefix

\* s.find(sep): the first index (from 1) at which sep occurs in s, 0 when absent
Find(s, sep) ==
    LET hits == {i \in 1..(Len(s) - Len(sep) + 1) : SubSeq(s, i, i + Len(sep) - 1) = sep}
    IN IF hits = {} THEN 0 ELSE CHOOSE i \in hits : \A j \in hits : i <= j

\* s.split(sep): the pieces of s between the occurrences of sep
RECURSIVE Split(_, _)
Split(s, sep) ==
    LET i == Find(s, sep)
    IN IF i = 0 THEN <<s>>
       ELSE <<SubSeq(s, 1, i - 1)>> \o Split(SubSeq(s, i + Len(sep), Len(s)), sep)

\* s.strip()
RECURSIVE Strip(_)
Strip(s) ==
    IF s = <<>> THEN s
    ELSE IF s[1] \in Whitespace THEN Strip(Tail(s))
    ELSE IF s[Len(s)] \in Whitespace THEN Strip(SubSeq(s, 1, Len(s) - 1))
    ELSE s

\* s.split(): the maximal runs of non-whitespace characters
RECURSIVE SplitWords(_)
SplitWords(s) ==
    LET t == Strip(s)
        ws == {i \in 1..Len(t) : t[i] \in Whitespace}
        k == IF ws = {} THEN Len(t) + 1 ELSE CHOOSE i \in ws : \A j \in ws : i <= j
    IN IF t = <<>> THEN <<>>
       ELSE <<SubSeq(t, 1, k - 1)>> \o SplitWords(SubSeq(t, k, Len(t)))

DigitValue(c) == (CHOOSE i \in 1..Len(Digits) : Digits[i] = c) - 1
IsDigit(c) == \E i \in 1..Len(Digits) : Digits[i] = c

RECURSIVE DigitsValue(_)
DigitsValue(s) ==
    IF s = <<>> THEN 0
    ELSE 10 * DigitsValue(SubSeq(s, 1, Len(s) - 1)) + DigitValue(s[Len(s)])

\* int(s): [ok, value]; ok = FALSE stands for ValueError
ParseInt(s) ==
    LET t == Strip(s)
        signed == t # <<>> /\ t[1] \in {"+", "-"}
        d == IF signed THEN Tail(t) ELSE t
    IN IF d # <<>> /\ \A i \in 1..Len(d) : IsDigit(d[i])
       THEN [ok |-> TRUE, value |-> IF signed /\ t[1] = "-" THEN 0 - DigitsValue(d) ELSE DigitsValue(d)]
       ELSE [ok |-> FALSE, value |-> 0]

\* str(n) for n >= 0
RECURSIVE Decimal(_)
Decimal(n) ==
    IF n < 10 THEN <<Digits[n + 1]>> ELSE Decimal(n \div 10) \o <<Digits[(n % 10) + 1]>>

(* ---------------------------------------------------------------------- *)
(* parse_response(sock): the header scan.                                  *)
(* ---------------------------------------------------------------------- *)
ContentLengthPrefix == <<"c", "o", "n", "t", "e", "n", "t", "-", "l", "e", "n", "g", "t", "h", ":">>

\* a scan that looks for the blank line in the last chunk only
HeaderCompleteInChunk(resp, chunk) == Find(chunk, Terminator) > 0

\* if b"\r\n\r\n" in response, after response += chunk
HeaderComplete(resp, chunk) == Find(resp \o chunk, Terminator) > 0

\* header_data = response[:header_end]
HeaderData(resp) == SubSeq(resp, 1, Find(resp, Terminator) - 1)

\* body_start = header_end + 4, and the bytes of response after it
BodyInResponse(resp) == Len(resp) - (Find(resp, Terminator) - 1 + Len(Terminator))

\* the loop over header_data.split("\r\n"): [ok, value]; ok = FALSE when
\* int(line.split(":")[1].strip()) raises
ContentLength(header_data) ==
    LET lines == Split(header_data, CRLF)
        hits == {i \in 1..Len(lines) : StartsWith(LowerAll(lines[i]), ContentLengthPrefix)}
    IN IF hits = {} THEN [ok |-> TRUE, value |-> 0]
       ELSE LET first == CHOOSE i \in hits : \A j \in hits : i <= j
            IN ParseInt(Strip(Split(lines[first], <<":">>)[2]))

\* status = int(header_data.split("\r\n")[0].split()[1]): [ok, value];
\* ok = FALSE when the index or the int() raises
StatusCode(header_data) ==
    LET words == SplitWords(Split(header_data, CRLF)[1])
    IN IF Len(words) < 2 THEN [ok |-> FALSE, value |-> 0] ELSE ParseInt(words[2])

\* a status line that is read as a status whatever int() makes of it
OutcomeAnyStatus(header_data, cl) ==
    [ok |-> TRUE, status |-> StatusCode(header_data).value, body_len |-> cl]

\* return status, content_length  /  except Exception: return None, 0
Outcome(header_data, cl) ==
    LET st == StatusCode(header_data)
    IN IF st.ok THEN [ok |-> TRUE, status |-> st.value, body_len |-> cl]
       ELSE [ok |-> FALSE, status |-> 0, body_len |-> 0]

NoResponse == [ok |-> FALSE, status |-> 0, body_len |-> 0]  \* return None, 0

(* ---------------------------------------------------------------------- *)
(* Tasks and requests.                                                     *)
(* ---------------------------------------------------------------------- *)
\* main(): a task is ("/echo", b'X' * body_size) or (endpoint, None)
TaskKinds ==
    [endpoint : GetEndpoints, body : {NoBody}]
        \cup [endpoint : {"/echo"}, body : [present : {TRUE}, len : PostBodySizes]]

EndpointNames == GetEndpoints \cup {"/echo"}

PathLen(endpoint) ==
    CASE endpoint = "/" -> 1
      [] endpoint = "/echo" -> 5
      [] endpoint = "/large" -> 6

RECURSIVE DecimalLen(_)
DecimalLen(n) == IF n < 10 THEN 1 ELSE 1 + DecimalLen(n \div 10)

\* len(create_request(endpoint, keep_alive=True, body=body))
RequestLen(endpoint, body) ==
    LET hasBody == body.present /\ body.len > 0          \* `if body:`
        method == IF hasBody THEN 4 ELSE 3                  \* "POST" / "GET"
        line == method + 1 + PathLen(endpoint) + 11         \* " HTTP/1.1\r\n"
        host == 22                                          \* "Host: localhost:8080\r\n"
        conn == 24                                          \* "Connection: keep-alive\r\n"
        extra == IF hasBody THEN (16 + DecimalLen(body.len) + 2) + 40 ELSE 0
    IN line + host + conn + extra + 2 + (IF hasBody THEN body.len ELSE 0)

(* ---------------------------------------------------------------------- *)
(* Initial state: main() has filled the queue with TOTAL_REQUESTS tasks    *)
(* followed by one None per worker, and has started the workers.           *)
(* ---------------------------------------------------------------------- *)
EmptyStats ==
    [requests_sent |-> 0, requests_completed |-> 0, requests_failed |-> 0,
     bytes_sent |-> 0, bytes_received |-> 0, connection_errors |-> 0,
     latencies |-> <<>>,
     per_endpoint |-> [e \in EndpointNames |-> [count |-> 0, bytes |-> 0]]]

PoisonPills == [i \in 1..NUM_CONNECTIONS |-> None]

\* the workloads checked: GET and POST tasks alternate, starting with either
Workloads ==
    {k \in [TaskIds -> TaskKinds] :
        \A i \in TaskIds : i > 1 => k[i].body.present # k[i - 1].body.present}

InitialQueues ==
    {[i \in TaskIds |-> [id |-> i, endpoint |-> k[i].endpoint, body |-> k[i].body]] \o PoisonPills :
        k \in Workloads}

WInit ==
    /\ request_queue \in InitialQueues
    /\ running = TRUE
    /\ stats = EmptyStats
    /\ pc = [w \in Workers |-> "head"]
    /\ task = [w \in Workers |-> None]
    /\ sock = [w \in Workers |-> "none"]
    /\ requests_on_conn = [w \in Workers |-> 0]
    /\ mainpc = "wait"
    /\ served = [w \in Workers |-> 0]
    /\ hist = [dequeued |-> 0, requeued |-> 0, pills |-> 0]

(* ---------------------------------------------------------------------- *)
(* worker(worker_id, request_queue)                                        *)
(* ---------------------------------------------------------------------- *)
\* a cleanup that closes nothing
LeaveAsIs(s) == s

\* the cleanup after the loop: if sock: sock.close()
CloseIfAny(s) == IF s = "open" THEN "closed" ELSE s

\* a loop that does not look at the flag: on to request_queue.get
LoopIgnoresFlag(w) ==
    /\ pc[w] = "head"
    /\ ~running
    /\ pc' = [pc EXCEPT ![w] = "get"]
    /\ UNCHANGED <<request_queue, running, stats, task, sock, requests_on_conn, mainpc, served, hist, fvars, ovars>>

\* `while running:` read as False: leave the loop, close the socket
LoopExit(w) ==
    /\ pc[w] = "head"
    /\ ~running
    /\ pc' = [pc EXCEPT ![w] = "done"]
    /\ sock' = [sock EXCEPT ![w] = CloseIfAny(sock[w])]
    /\ UNCHANGED <<request_queue, running, stats, task, requests_on_conn, mainpc, served, hist, fvars, ovars>>

\* `while running:` read as True: go on to request_queue.get
LoopEnter(w) ==
    /\ pc[w] = "head"
    /\ running
    /\ pc' = [pc EXCEPT ![w] = "get"]
    /\ UNCHANGED <<request_queue, running, stats, task, sock, requests_on_conn, mainpc, served, hist, fvars, ovars>>

\* request_queue.get(timeout=0.5) raises queue.Empty: continue
GetTimeout(w) ==
    /\ pc[w] = "get"
    /\ request_queue = <<>>
    /\ pc' = [pc EXCEPT ![w] = "head"]
    /\ UNCHANGED <<request_queue, running, stats, task, sock, requests_on_conn, mainpc, served, hist, fvars, ovars>>

\* request_queue.get returns None: break, then the cleanup after the loop
GetPill(w) ==
    /\ pc[w] = "get"
    /\ request_queue # <<>>
    /\ Head(request_queue) = None
    /\ request_queue' = Tail(request_queue)
    /\ pc' = [pc EXCEPT ![w] = "done"]
    /\ sock' = [sock EXCEPT ![w] = CloseIfAny(sock[w])]
    /\ hist' = [hist EXCEPT !.pills = @ + 1]
    /\ UNCHANGED <<running, stats, task, requests_on_conn, mainpc, served, fvars, ovars>>

\* request_queue.get returns a task
GetTask(w) ==
    /\ pc[w] = "get"
    /\ request_queue # <<>>
    /\ Head(request_queue) # None
    /\ request_queue' = Tail(request_queue)
    /\ task' = [task EXCEPT ![w] = Head(request_queue)]
    /\ pc' = [pc EXCEPT ![w] = "conn"]
    /\ hist' = [hist EXCEPT !.dequeued = @ + 1]
    /\ UNCHANGED <<running, stats, sock, requests_on_conn, mainpc, served, fvars, ovars>>

\* the rotation test off by one
NeedsConnectLate(w) == sock[w] = "none" \/ requests_on_conn[w] > REQUESTS_PER_CONNECTION

\* if sock is None or requests_on_conn >= REQUESTS_PER_CONNECTION
NeedsConnect(w) == sock[w] = "none" \/ requests_on_conn[w] >= REQUESTS_PER_CONNECTION

\* the live connection is kept: straight to the send
Reuse(w) ==
    /\ pc[w] = "conn"
    /\ ~NeedsConnect(w)
    /\ pc' = [pc EXCEPT ![w] = "send"]
    /\ UNCHANGED <<request_queue, running, stats, task, sock, requests_on_conn, mainpc, served, hist, fvars, ovars>>

\* a successful connect that forgets `requests_on_conn = 0`
ConnectOkNoReset(w) ==
    /\ pc[w] = "conn"
    /\ NeedsConnect(w)
    /\ sock' = [sock EXCEPT ![w] = "open"]
    /\ served' = [served EXCEPT ![w] = 0]
    /\ pc' = [pc EXCEPT ![w] = "send"]
    /\ UNCHANGED <<request_queue, running, stats, task, requests_on_conn, mainpc, hist, fvars, ovars>>

\* old socket closed, new socket made, sock.connect succeeds
ConnectOk(w) ==
    /\ pc[w] = "conn"
    /\ NeedsConnect(w)
    /\ sock' = [sock EXCEPT ![w] = "open"]
    /\ requests_on_conn' = [requests_on_conn EXCEPT ![w] = 0]
    /\ pc' = [pc EXCEPT ![w] = "send"]
    /\ served' = [served EXCEPT ![w] = 0]
    /\ UNCHANGED <<request_queue, running, stats, task, mainpc, hist, fvars, ovars>>

\* old socket closed, new socket made, sock.connect raises:
\* with stats_lock: stats["connection_errors"] += 1
ConnectFail(w) ==
    /\ pc[w] = "conn"
    /\ NeedsConnect(w)
    /\ stats' = [stats EXCEPT !.connection_errors = @ + 1]
    /\ sock' = [sock EXCEPT ![w] = "unconnected"]
    /\ pc' = [pc EXCEPT ![w] = "requeue"]
    /\ served' = [served EXCEPT ![w] = 0]
    /\ UNCHANGED <<request_queue, running, task, requests_on_conn, mainpc, hist, fvars, ovars>>

\* a connect-failure path that forgets `sock = None`
RequeueKeepsSocket(w) ==
    /\ pc[w] = "requeue"
    /\ request_queue' = Append(request_queue, task[w])
    /\ task' = [task EXCEPT ![w] = None]
    /\ pc' = [pc EXCEPT ![w] = "head"]
    /\ hist' = [hist EXCEPT !.requeued = @ + 1]
    /\ UNCHANGED <<running, stats, sock, requests_on_conn, mainpc, served, fvars, ovars>>

\* request_queue.put(task); sock = None; time.sleep(0.05); continue
Requeue(w) ==
    /\ pc[w] = "requeue"
    /\ request_queue' = Append(request_queue, task[w])
    /\ sock' = [sock EXCEPT ![w] = "none"]
    /\ task' = [task EXCEPT ![w] = None]
    /\ pc' = [pc EXCEPT ![w] = "head"]
    /\ hist' = [hist EXCEPT !.requeued = @ + 1]
    /\ UNCHANGED <<running, stats, requests_on_conn, mainpc, served, fvars, ovars>>

\* an outer handler that swallows the error without counting the task
SocketFailUncounted(w) ==
    /\ pc[w] = "conn"
    /\ NeedsConnect(w)
    /\ sock' = [sock EXCEPT ![w] = CloseIfAny(sock[w])]
    /\ task' = [task EXCEPT ![w] = None]
    /\ pc' = [pc EXCEPT ![w] = "head"]
    /\ UNCHANGED <<request_queue, running, stats, requests_on_conn, mainpc, served, hist, fvars, ovars>>

\* old socket closed, then socket.socket()/setsockopt raises (e.g. EMFILE):
\* the outer handler counts a failure; sock still names the closed socket
SocketFail(w) ==
    /\ pc[w] = "conn"
    /\ NeedsConnect(w)
    /\ stats' = [stats EXCEPT !.requests_failed = @ + 1]
    /\ sock' = [sock EXCEPT ![w] = CloseIfAny(sock[w])]
    /\ task' = [task EXCEPT ![w] = None]
    /\ pc' = [pc EXCEPT ![w] = "head"]
    /\ UNCHANGED <<request_queue, running, requests_on_conn, mainpc, served, hist, fvars, ovars>>

\* a send that is not counted
SendOkUncounted(w) ==
    /\ pc[w] = "send"
    /\ pc' = [pc EXCEPT ![w] = "recv"]
    /\ UNCHANGED <<request_queue, running, stats, task, sock, requests_on_conn, mainpc, served, hist, fvars, ovars>>

\* sock.sendall(req_data) returns:
\* with stats_lock: requests_sent += 1; bytes_sent += len(req_data)
SendOk(w) ==
    /\ pc[w] = "send"
    /\ stats' = [stats EXCEPT !.requests_sent = @ + 1,
                              !.bytes_sent = @ + RequestLen(task[w].endpoint, task[w].body)]
    /\ pc' = [pc EXCEPT ![w] = "recv"]
    /\ UNCHANGED <<request_queue, running, task, sock, requests_on_conn, mainpc, served, hist, fvars, ovars>>

\* a failure handler that puts the task back on the queue
RequestFailedRequeues(w) ==
    /\ stats' = [stats EXCEPT !.requests_failed = @ + 1]
    /\ request_queue' = Append(request_queue, task[w])
    /\ sock' = [sock EXCEPT ![w] = "none"]
    /\ requests_on_conn' = [requests_on_conn EXCEPT ![w] = 0]
    /\ served' = [served EXCEPT ![w] = 0]
    /\ task' = [task EXCEPT ![w] = None]
    /\ pc' = [pc EXCEPT ![w] = "head"]
    /\ UNCHANGED <<running, mainpc, hist, fvars, ovars>>

\* a failure handler that ends the worker
RequestFailedStops(w) ==
    /\ stats' = [stats EXCEPT !.requests_failed = @ + 1]
    /\ sock' = [sock EXCEPT ![w] = "none"]
    /\ requests_on_conn' = [requests_on_conn EXCEPT ![w] = 0]
    /\ served' = [served EXCEPT ![w] = 0]
    /\ task' = [task EXCEPT ![w] = None]
    /\ pc' = [pc EXCEPT ![w] = "done"]
    /\ UNCHANGED <<request_queue, running, mainpc, hist, fvars, ovars>>

\* the handler of the inner try: requests_failed += 1; sock.close(); sock = None;
\* requests_on_conn = 0
RequestFailed(w) ==
    /\ stats' = [stats EXCEPT !.requests_failed = @ + 1]
    /\ sock' = [sock EXCEPT ![w] = "none"]
    /\ requests_on_conn' = [requests_on_conn EXCEPT ![w] = 0]
    /\ task' = [task EXCEPT ![w] = None]
    /\ pc' = [pc EXCEPT ![w] = "head"]
    /\ served' = [served EXCEPT ![w] = 0]
    /\ UNCHANGED <<request_queue, running, mainpc, hist, fvars, ovars>>

\* sock.sendall raises
SendFail(w) ==
    /\ pc[w] = "send"
    /\ RequestFailed(w)

\* parse_response returns (None, 0): raise Exception("No response")
RecvFail(w) ==
    /\ pc[w] = "recv"
    /\ RequestFailed(w)

\* a store without the capacity test: stats["latencies"].append(elapsed)
AppendAlways(latencies, elapsed) == Append(latencies, elapsed)

\* if len(stats["latencies"]) < 100000: stats["latencies"].append(elapsed)
AppendLatency(latencies, elapsed) ==
    IF Len(latencies) < LATENCY_CAP THEN Append(latencies, elapsed) ELSE latencies

\* a success block that is also counted by a failure handler
RecordSuccessAndFailure(st, endpoint, body_len, elapsed) ==
    [st EXCEPT !.requests_completed = @ + 1,
               !.requests_failed = @ + 1,
               !.bytes_received = @ + body_len,
               !.latencies = AppendLatency(@, elapsed),
               !.per_endpoint[endpoint].count = @ + 1,
               !.per_endpoint[endpoint].bytes = @ + body_len]

\* a success block that leaves the per-endpoint table for later
RecordSuccessTotalsOnly(st, endpoint, body_len, elapsed) ==
    [st EXCEPT !.requests_completed = @ + 1,
               !.bytes_received = @ + body_len,
               !.latencies = AppendLatency(@, elapsed)]

\* the success block under stats_lock
RecordSuccess(st, endpoint, body_len, elapsed) ==
    [st EXCEPT !.requests_completed = @ + 1,
               !.bytes_received = @ + body_len,
               !.latencies = AppendLatency(@, elapsed),
               !.per_endpoint[endpoint].count = @ + 1,
               !.per_endpoint[endpoint].bytes = @ + body_len]

\* the success block for one response, then requests_on_conn += 1
Completed(w, body_len, elapsed) ==
    /\ stats' = RecordSuccess(stats, task[w].endpoint, body_len, elapsed)
    /\ requests_on_conn' = [requests_on_conn EXCEPT ![w] = @ + 1]
    /\ task' = [task EXCEPT ![w] = None]
    /\ pc' = [pc EXCEPT ![w] = "head"]
    /\ served' = [served EXCEPT ![w] = @ + 1]
    /\ UNCHANGED <<request_queue, running, sock, mainpc, hist, fvars, ovars>>

\* parse_response returns (status, body_len) with a status
RecvOk(w) ==
    /\ pc[w] = "recv"
    /\ \E body_len \in BodyLens, elapsed \in ElapsedValues : Completed(w, body_len, elapsed)

(* ---------------------------------------------------------------------- *)
(* main(): the wait loop and the stop flag.                                *)
(* ---------------------------------------------------------------------- *)
\* done = requests_completed + requests_failed; if done >= TOTAL_REQUESTS: break
WaitDone == stats.requests_completed + stats.requests_failed >= TOTAL_REQUESTS

\* a wait loop that does not wait
MainStopsAtOnce ==
    /\ mainpc = "wait"
    /\ running' = FALSE
    /\ mainpc' = "report"
    /\ UNCHANGED <<request_queue, stats, pc, task, sock, requests_on_conn, served, hist, fvars, ovars>>

\* the wait loop ends; running = False.  While WaitDone is false main() only
\* sleeps and polls again, which changes nothing.
MainStop ==
    /\ mainpc = "wait"
    /\ WaitDone
    /\ running' = FALSE
    /\ mainpc' = "report"
    /\ UNCHANGED <<request_queue, stats, pc, task, sock, requests_on_conn, served, hist, fvars, ovars>>

\* except KeyboardInterrupt: ...; running = False
Interrupt ==
    /\ mainpc = "wait"
    /\ running' = FALSE
    /\ mainpc' = "report"
    /\ UNCHANGED <<request_queue, stats, pc, task, sock, requests_on_conn, served, hist, fvars, ovars>>


(* ---------------------------------------------------------------------- *)
(* parse_response(sock): the receive loop, one action per sock.recv.       *)
(* ---------------------------------------------------------------------- *)
RECV_SIZE == 65536
MaxContentLength == 2

HttpVersion == <<"H", "T", "T", "P", "/", "1", ".", "1">>
StatusLines ==
    {[kind |-> "valid", status |-> c, bytes |-> HttpVersion \o <<" ">> \o Decimal(c) \o <<" ", "O", "K">>] :
        c \in {200, 404}}
    \cup {[kind |-> "not a number", status |-> 0, bytes |-> HttpVersion \o <<" ", "O", "K">>],
          [kind |-> "one word", status |-> 0, bytes |-> HttpVersion]}

LengthHeaders ==
    {[kind |-> "valid", cl |-> n, bytes |-> <<"C", "o", "n", "t", "e", "n", "t", "-", "L", "e", "n", "g", "t", "h", ":", " ">> \o Decimal(n) \o CRLF] :
        n \in 0..MaxContentLength}
    \cup {[kind |-> "invalid", cl |-> 0, bytes |-> <<"C", "o", "n", "t", "e", "n", "t", "-", "L", "e", "n", "g", "t", "h", ":", " ", "x">> \o CRLF],
          [kind |-> "absent", cl |-> 0, bytes |-> <<>>]}

OtherHeaders == {<<>>, <<"S", "e", "r", "v", "e", "r", ":", " ", "a", ":", "b">> \o CRLF}

Body(n) == [i \in 1..n |-> "X"]

\* the peers checked: a status line, then headers, a blank line and cl body bytes
Peers ==
    {[status_kind |-> sl.kind, status |-> sl.status, cl_kind |-> lh.kind, cl |-> lh.cl,
      bytes |-> sl.bytes \o CRLF \o oh \o lh.bytes \o CRLF \o Body(lh.cl)] :
        sl \in StatusLines, lh \in LengthHeaders, oh \in OtherHeaders}

FIdle ==
    /\ wire = <<>>
    /\ sent = [status_kind |-> "", status |-> 0, cl_kind |-> "", cl |-> 0]
    /\ response = <<>>
    /\ fpc = "idle"
    /\ content_length = 0
    /\ body_received = 0
    /\ result = NoResponse
    /\ event = "none"
    /\ splits = {}

\* response = b"" at the top of parse_response, a peer about to answer
FInit ==
    /\ \E p \in Peers :
          /\ wire = p.bytes
          /\ sent = [status_kind |-> p.status_kind, status |-> p.status,
                     cl_kind |-> p.cl_kind, cl |-> p.cl]
    /\ response = <<>>
    /\ fpc = "header"
    /\ content_length = 0
    /\ body_received = 0
    /\ result = NoResponse
    /\ event = "none"
    /\ splits = {}

Pending == Len(wire) - Len(response)
NextBytes(n) == SubSeq(wire, Len(response) + 1, Len(response) + n)

LengthName == <<"C", "o", "n", "t", "e", "n", "t", "-", "L", "e", "n", "g", "t", "h", ":">>

\* the places a read that ends after byte k of the wire cuts through
SplitsAt(k) ==
    LET t == Find(wire, Terminator)
        c == Find(wire, LengthName)
        e == c + Find(SubSeq(wire, c, Len(wire)), CRLF) - 1
    IN (IF t <= k /\ k < t + Len(Terminator) - 1 THEN {"terminator"} ELSE {})
       \cup (IF c > 0 /\ c <= k /\ k < e THEN {"length line"} ELSE {})

Return(r) ==
    /\ fpc' = "done"
    /\ result' = r

\* chunk = sock.recv(65536) in the outer loop returns n bytes
RecvHeader(n) ==
    /\ fpc = "header"
    /\ n \in 1..Min(RECV_SIZE, Pending)
    /\ response' = response \o NextBytes(n)
    /\ IF ~HeaderComplete(response, NextBytes(n))
       THEN UNCHANGED <<fpc, content_length, body_received, result>>
       ELSE LET cl == ContentLength(HeaderData(response'))
            IN IF ~cl.ok
               THEN Return(NoResponse) /\ UNCHANGED <<content_length, body_received>>
               ELSE /\ content_length' = cl.value
                    /\ body_received' = BodyInResponse(response')
                    /\ IF body_received' < content_length'
                       THEN fpc' = "body" /\ UNCHANGED result
                       ELSE Return(Outcome(HeaderData(response'), content_length'))
    /\ splits' = splits \cup SplitsAt(Len(response'))
    /\ UNCHANGED <<wire, sent, event, wvars, ovars>>

\* the recv in the body loop returns n bytes: chunk = sock.recv(min(remaining, 65536))
RecvBody(n) ==
    /\ fpc = "body"
    /\ n \in 1..Min(Min(content_length - body_received, RECV_SIZE), Pending)
    /\ response' = response \o NextBytes(n)
    /\ body_received' = body_received + n
    /\ IF body_received' < content_length
       THEN UNCHANGED <<fpc, result>>
       ELSE Return(Outcome(HeaderData(response), content_length))
    /\ UNCHANGED <<wire, sent, content_length, event, splits, wvars, ovars>>

\* the peer has closed: recv in the outer loop returns b"": return None, 0
RecvEmptyHeader ==
    /\ fpc = "header"
    /\ Return(NoResponse)
    /\ event' = "eof"
    /\ UNCHANGED <<wire, sent, response, content_length, body_received, splits, wvars, ovars>>

\* the peer has closed: recv in the body loop returns b"": break, then the return
RecvEmptyBody ==
    /\ fpc = "body"
    /\ Return(Outcome(HeaderData(response), content_length))
    /\ event' = "eof"
    /\ UNCHANGED <<wire, sent, response, content_length, body_received, splits, wvars, ovars>>

\* a recv raises socket.timeout: return None, 0
RecvTimeout ==
    /\ fpc \in {"header", "body"}
    /\ Return(NoResponse)
    /\ event' = "timeout"
    /\ UNCHANGED <<wire, sent, response, content_length, body_received, splits, wvars, ovars>>

FramerNext ==
    \/ \E n \in 1..Pending : RecvHeader(n)
    \/ \E n \in 1..Pending : RecvBody(n)
    \/ RecvEmptyHeader
    \/ RecvEmptyBody
    \/ RecvTimeout

(* ---------------------------------------------------------------------- *)
(* Locks.  The threads of extreme_stress.py at the grain of lock           *)
(* acquisitions and blocking calls: what a thread does between two of      *)
(* them is left out, every branch the code can take is kept.               *)
(* ---------------------------------------------------------------------- *)
MainThread == 0

\* the calls that can block: queue get and put, connect, sendall, recv, sleep
Blocking ==
    {"get", "get_in", "put", "put_in", "connect", "send", "recv", "sleep", "wait_sleep", "report_sleep"}

\* the global running, as main() has left it
LRunning == lpc[MainThread] \in {"wait_acq", "wait_cs", "wait_sleep", "stopping"}

Go(t, from, to) ==
    /\ lpc[t] = from
    /\ lpc' = [lpc EXCEPT ![t] = to]

\* a release that forgets the lock
KeepStatsLock(t, from, to) ==
    /\ Go(t, from, to)
    /\ UNCHANGED <<stats_lock, queue_mutex, svars, lrest>>

\* `with stats_lock:` entered
AcquireStatsLock(t, from, to) ==
    /\ Go(t, from, to)
    /\ stats_lock = {}
    /\ stats_lock' = {t}
    /\ UNCHANGED <<queue_mutex, svars, lrest>>

\* `with stats_lock:` left
ReleaseStatsLock(t, from, to) ==
    /\ Go(t, from, to)
    /\ stats_lock' = stats_lock \ {t}
    /\ UNCHANGED <<queue_mutex, svars, lrest>>

\* queue.Queue takes its mutex inside get and put
AcquireQueueMutex(t, from, to) ==
    /\ Go(t, from, to)
    /\ queue_mutex = {}
    /\ queue_mutex' = {t}
    /\ UNCHANGED <<stats_lock, svars, lrest>>

ReleaseQueueMutex(t, from, to) ==
    /\ Go(t, from, to)
    /\ queue_mutex' = queue_mutex \ {t}
    /\ UNCHANGED <<stats_lock, svars, lrest>>

\* a step that takes and releases no lock
Plain(t, from, to) ==
    /\ Go(t, from, to)
    /\ UNCHANGED <<stats_lock, queue_mutex, svars, lrest>>

\* worker(): one step of a worker thread
LWorkerStep(w) ==
    \* while running: -> request_queue.get(timeout=0.5)
    \/ LRunning /\ Plain(w, "head", "get")
    \* while running: read as False -> the cleanup after the loop
    \/ ~LRunning /\ Plain(w, "head", "cleanup")
    \* inside request_queue.get
    \/ AcquireQueueMutex(w, "get", "get_in")
    \* get returns a task
    \/ ReleaseQueueMutex(w, "get_in", "conn")
    \* get returns None: break
    \/ ReleaseQueueMutex(w, "get_in", "cleanup")
    \* the connection is kept
    \/ Plain(w, "conn", "send")
    \* the old socket is closed and a new one made: sock.connect
    \/ Plain(w, "conn", "connect")
    \* socket.socket() or setsockopt raises: the outer handler
    \/ Plain(w, "conn", "outer_acq")
    \* sock.connect returns
    \/ Plain(w, "connect", "send")
    \* sock.connect raises: with stats_lock: connection_errors += 1
    \/ Plain(w, "connect", "err_acq")
    \/ AcquireStatsLock(w, "err_acq", "err_cs")
    \/ ReleaseStatsLock(w, "err_cs", "put")
    \* request_queue.put(task)
    \/ AcquireQueueMutex(w, "put", "put_in")
    \/ ReleaseQueueMutex(w, "put_in", "sleep")
    \* sock = None; time.sleep(0.05); continue
    \/ Plain(w, "sleep", "head")
    \* sock.sendall returns: with stats_lock: requests_sent += 1; bytes_sent += ...
    \/ Plain(w, "send", "sent_acq")
    \/ AcquireStatsLock(w, "sent_acq", "sent_cs")
    \/ ReleaseStatsLock(w, "sent_cs", "recv")
    \* sock.sendall raises: the inner handler
    \/ Plain(w, "send", "fail_acq")
    \* parse_response returns a status: the success block under stats_lock
    \/ Plain(w, "recv", "ok_acq")
    \/ AcquireStatsLock(w, "ok_acq", "ok_cs")
    \/ ReleaseStatsLock(w, "ok_cs", "head")
    \* parse_response returns None: raise, the inner handler
    \/ Plain(w, "recv", "fail_acq")
    \* with stats_lock: requests_failed += 1, then sock.close(), sock = None
    \/ AcquireStatsLock(w, "fail_acq", "fail_cs")
    \/ ReleaseStatsLock(w, "fail_cs", "head")
    \* the outer handler: with stats_lock: requests_failed += 1
    \/ AcquireStatsLock(w, "outer_acq", "outer_cs")
    \/ ReleaseStatsLock(w, "outer_cs", "head")
    \* if sock: sock.close()
    \/ Plain(w, "cleanup", "done")

\* main(): one step of the main thread, from the wait loop to the final report
LMainStep ==
    \* with stats_lock: done = completed + failed
    \/ AcquireStatsLock(MainThread, "wait_acq", "wait_cs")
    \* done < TOTAL_REQUESTS: time.sleep(0.5)
    \/ ReleaseStatsLock(MainThread, "wait_cs", "wait_sleep")
    \/ Plain(MainThread, "wait_sleep", "wait_acq")
    \* done >= TOTAL_REQUESTS: break
    \/ ReleaseStatsLock(MainThread, "wait_cs", "stopping")
    \* except KeyboardInterrupt, raised in the sleep
    \/ Plain(MainThread, "wait_sleep", "stopping")
    \* running = False; time.sleep(2)
    \/ Plain(MainThread, "stopping", "report_sleep")
    \/ Plain(MainThread, "report_sleep", "report_acq")
    \* the final report reads under stats_lock
    \/ AcquireStatsLock(MainThread, "report_acq", "report_cs")
    \/ ReleaseStatsLock(MainThread, "report_cs", "exit")

\* extreme_stress.py has ended: main() has printed its report, the workers are out
LFinished == lpc[MainThread] = "exit" /\ \A w \in Workers : lpc[w] = "done"

(* ---------------------------------------------------------------------- *)
(* gradual_stress.py: run_gradual_test() calls stress_test() for the       *)
(* warm-up and then for each concurrency level; started once the run above *)
(* has ended.                                                              *)
(* ---------------------------------------------------------------------- *)
\* the calls of stress_test(host, port, concurrency, num_requests): the warm-up,
\* then CONCURRENCY_LEVELS, cut to the lowest and the highest level
Levels ==
    <<[concurrency |-> NUM_CONNECTIONS, num_requests |-> WARMUP_REQUESTS],
      [concurrency |-> 1, num_requests |-> REQUESTS_PER_LEVEL],
      [concurrency |-> NUM_CONNECTIONS, num_requests |-> REQUESTS_PER_LEVEL]>>

SGo(w, from, to) ==
    /\ LFinished
    /\ spc[w] = from
    /\ spc' = [spc EXCEPT ![w] = to]

\* a result that counts successes only
RecordedIfSuccess(res, success) ==
    [res EXCEPT !.completed = IF success THEN @ + 1 ELSE @]

\* with lock: if success: result.completed += 1 ... else: result.failed += 1
Recorded(res, success) ==
    [res EXCEPT !.completed = IF success THEN @ + 1 ELSE @,
                   !.failed = IF success THEN @ ELSE @ + 1]

\* worker() of stress_test(): one step of a worker thread
SWorkerStep(w) ==
    \* with queue_lock:
    \/ /\ SGo(w, "q_acq", "q_cs")
       /\ queue_lock = {}
       /\ queue_lock' = {w}
       /\ UNCHANGED <<level_queue, lock, staircase, xvars, lrest>>
    \* if not request_queue: return
    \/ /\ SGo(w, "q_cs", "done")
       /\ level_queue = 0
       /\ queue_lock' = queue_lock \ {w}
       /\ UNCHANGED <<level_queue, lock, staircase, xvars, lrest>>
    \* request_queue.pop(), and the with block is left; the list is
    \* list(range(num_requests)), so its last element is len - 1
    \/ /\ SGo(w, "q_cs", "request")
       /\ level_queue > 0
       /\ level_queue' = level_queue - 1
       /\ queue_lock' = queue_lock \ {w}
       /\ staircase' = [staircase EXCEPT !.taken = Append(@, level_queue - 1)]
       /\ UNCHANGED <<lock, xvars, lrest>>
    \* make_request(host, port, path) returns, with success or without
    \/ /\ SGo(w, "request", "r_acq")
       /\ staircase' = [staircase EXCEPT !.attempts = @ + 1]
       /\ UNCHANGED <<level_queue, queue_lock, lock, xvars, lrest>>
    \* with lock:
    \/ /\ SGo(w, "r_acq", "r_cs")
       /\ lock = {}
       /\ lock' = {w}
       /\ UNCHANGED <<level_queue, queue_lock, staircase, xvars, lrest>>
    \* result.completed += 1 ... or result.failed += 1, by the success that
    \* make_request returned, and the with block is left
    \/ /\ SGo(w, "r_cs", "q_acq")
       /\ lock' = lock \ {w}
       /\ \E success \in BOOLEAN :
             staircase' = [staircase EXCEPT !.result = Recorded(@, success)]
       /\ UNCHANGED <<level_queue, queue_lock, xvars, lrest>>

\* a join that does not wait
JoinedAtOnce(w) == TRUE

\* t.join() returns once thread t has ended
Joined(w) == spc[w] = "done"

\* run_gradual_test(), with the body of stress_test() for the call it is in:
\* level is the index of that call in Levels
run_gradual_test ==
    LET call == Levels[staircase.level]
        fresh == [started |-> 0, joined |-> 0, attempts |-> 0, taken |-> <<>>,
                  result |-> [completed |-> 0, failed |-> 0]]
    IN
    \* the server answers the check: the warm-up is called
    \/ /\ LFinished
       /\ staircase.level = 0
       /\ staircase' = [fresh @@ staircase EXCEPT !.level = 1]
       /\ level_queue' = Levels[1].num_requests
       /\ UNCHANGED <<spc, queue_lock, lock, xvars, lrest>>
    \* the check fails: return None
    \/ /\ LFinished
       /\ staircase.level = 0
       /\ staircase' = [staircase EXCEPT !.level = Len(Levels) + 1]
       /\ UNCHANGED <<spc, level_queue, queue_lock, lock, xvars, lrest>>
    \* for t in threads: t.start()
    \/ /\ staircase.level \in 1..Len(Levels)
       /\ staircase.started < call.concurrency
       /\ staircase' = [staircase EXCEPT !.started = @ + 1]
       /\ spc' = [spc EXCEPT ![staircase.started + 1] = "q_acq"]
       /\ UNCHANGED <<level_queue, queue_lock, lock, xvars, lrest>>
    \* for t in threads: t.join()
    \/ /\ staircase.level \in 1..Len(Levels)
       /\ staircase.started = call.concurrency
       /\ staircase.joined < call.concurrency
       /\ Joined(staircase.joined + 1)
       /\ staircase' = [staircase EXCEPT !.joined = @ + 1]
       /\ UNCHANGED <<spc, level_queue, queue_lock, lock, xvars, lrest>>
    \* return result: the warm-up's is dropped, a level's is stored in results;
    \* then the next call, or the end of the list
    \/ /\ staircase.level \in 1..Len(Levels)
       /\ staircase.started = call.concurrency
       /\ staircase.joined = call.concurrency
       /\ LET results == IF staircase.level = 1 THEN staircase.results
                         ELSE Append(staircase.results,
                                     [concurrency |-> call.concurrency] @@ staircase.result)
          IN IF staircase.level < Len(Levels)
             THEN /\ staircase' = [fresh @@ staircase EXCEPT !.level = @ + 1, !.results = results]
                  /\ level_queue' = Levels[staircase.level + 1].num_requests
             ELSE /\ staircase' = [staircase EXCEPT !.level = @ + 1, !.results = results]
                  /\ UNCHANGED level_queue
       /\ UNCHANGED <<spc, queue_lock, lock, xvars, lrest>>

\* threads started, none inside a lock; run_gradual_test not called
LInit ==
    /\ lpc = [t \in Workers \cup {MainThread} |-> IF t = MainThread THEN "wait_acq" ELSE "head"]
    /\ stats_lock = {}
    /\ queue_mutex = {}
    /\ spc = [w \in Workers |-> "unstarted"]
    /\ level_queue = 0
    /\ queue_lock = {}
    /\ lock = {}
    /\ staircase = [level |-> 0, started |-> 0, joined |-> 0, attempts |-> 0, taken |-> <<>>,
                    result |-> [completed |-> 0, failed |-> 0], results |-> <<>>]

(* ---------------------------------------------------------------------- *)
(* The pre-flight connectivity check and the start of the run.             *)
(* ---------------------------------------------------------------------- *)
PROBE_ATTEMPTS == 10

\* extreme_stress.py fills a queue before it starts workers; the others have none
HasQueue == harness = "extreme_stress"

\* sock.connect((HOST, PORT)) returns; sock.close(); break
ProbeOk ==
    /\ ppc = "probe"
    /\ probed' = TRUE
    /\ ppc' = IF HasQueue THEN "fill" ELSE "start"
    /\ UNCHANGED <<harness, attempts, started, exit_code, wvars, fvars, lvars, rvars, qvars, tvars>>

\* the connect raises.  extreme_stress.py: time.sleep(1) and the next of the
\* range(10) attempts, sys.exit(1) after the last.  sustained_load.py and
\* spike_test.py: print the error and return; main() returns and the
\* interpreter ends with status 0.
ProbeFail ==
    /\ ppc = "probe"
    /\ attempts' = attempts + 1
    /\ IF HasQueue
       THEN IF attempts' < PROBE_ATTEMPTS
            THEN UNCHANGED <<ppc, exit_code>>
            ELSE ppc' = "exited" /\ exit_code' = 1
       ELSE ppc' = "exited" /\ exit_code' = 0
    /\ UNCHANGED <<harness, probed, started, wvars, fvars, lvars, rvars, qvars, tvars>>

\* request_queue.put(...) of the next task, or of the next None after the tasks
Fill ==
    /\ ppc = "fill"
    /\ \E q \in InitialQueues :
          /\ SubSeq(q, 1, Len(request_queue)) = request_queue
          /\ request_queue' = SubSeq(q, 1, Len(request_queue) + 1)
          /\ ppc' = IF request_queue' = q THEN "start" ELSE "fill"
    /\ UNCHANGED <<harness, attempts, probed, started, exit_code, fvars, lvars, rvars, qvars, tvars>>
    /\ UNCHANGED <<running, stats, pc, task, sock, requests_on_conn, mainpc, served, hist>>

\* t = threading.Thread(target=worker, ...); t.start()
StartWorker ==
    /\ ppc = "start"
    /\ started' = started + 1
    /\ ppc' = IF started' = NUM_CONNECTIONS THEN "run" ELSE "start"
    /\ UNCHANGED <<harness, attempts, probed, exit_code, wvars, fvars, lvars, rvars, qvars, tvars>>

\* the program has just been started
PInit ==
    /\ harness \in {"extreme_stress", "sustained_load", "spike_test"}
    /\ ppc = "probe"
    /\ attempts = 0
    /\ probed = FALSE
    /\ started = 0
    /\ exit_code = 0

\* extreme_stress.py with its check passed at the first attempt and its workers started
PIdle ==
    /\ harness = "extreme_stress"
    /\ ppc = "run"
    /\ attempts = 0
    /\ probed = TRUE
    /\ started = NUM_CONNECTIONS
    /\ exit_code = 0

(* ---------------------------------------------------------------------- *)
(* The readers of the statistics: monitor() and the final report.          *)
(* ---------------------------------------------------------------------- *)
MONITOR_WINDOW == 10000

\* s[-n:]
LastN(s, n) == IF Len(s) <= n THEN s ELSE SubSeq(s, Len(s) - n + 1, Len(s))

NoValues == [completed |-> 0, failed |-> 0, bytes_recv |-> 0, bytes_sent |-> 0, latencies |-> <<>>]

\* monitor(): time.sleep(5) is over; with stats_lock: the counters are copied
\* and latencies = stats["latencies"][-10000:], a new list
MonitorRead ==
    /\ mpc = "sleep"
    /\ mpc' = "read"
    /\ mon' = [completed |-> stats.requests_completed, failed |-> stats.requests_failed,
               bytes_recv |-> stats.bytes_received, bytes_sent |-> stats.bytes_sent,
               latencies |-> LastN(stats.latencies, MONITOR_WINDOW)]
    /\ mon_seen' = stats
    /\ UNCHANGED <<last, rpc, report, report_seen, printed, wvars, fvars, lvars, pvars, qvars, tvars>>

\* the numerator of a rate that forgets to move its marker
StaleLast(last_completed, completed) == last_completed

\* monitor(): last_completed = completed, at the end of every pass
MarkLast(last_completed, completed) == completed

\* monitor(): rps = (completed - last_completed) / interval; the progress line
\* is computed from the locals and printed; the markers are set; then
\* `while running` is read again
MonitorPrint ==
    /\ mpc = "read"
    /\ mpc' = IF running THEN "sleep" ELSE "done"
    /\ last' = [completed |-> MarkLast(last.completed, mon.completed),
                numerator |-> mon.completed - last.completed,
                sum |-> last.sum + (mon.completed - last.completed)]
    /\ mon' = NoValues
    /\ mon_seen' = EmptyStats
    /\ UNCHANGED <<rpc, report, report_seen, printed, wvars, fvars, lvars, pvars, qvars, tvars>>

\* main(), after running = False and time.sleep(2): with stats_lock: the
\* counters are copied; latencies = stats["latencies"] is the list itself
ReportRead ==
    /\ mainpc = "report"
    /\ rpc = "idle"
    /\ rpc' = "read"
    /\ report' = [completed |-> stats.requests_completed, failed |-> stats.requests_failed,
                  bytes_recv |-> stats.bytes_received, bytes_sent |-> stats.bytes_sent]
    /\ report_seen' = stats
    /\ UNCHANGED <<printed, mpc, mon, mon_seen, last, wvars, fvars, lvars, pvars, qvars, tvars>>

\* main(): the report is printed from the locals; sorted(latencies),
\* min(latencies), statistics.mean(latencies) read the list as it is now
ReportPrint ==
    /\ rpc = "read"
    /\ rpc' = "printed"
    /\ printed' = [completed |-> report.completed, failed |-> report.failed,
                   bytes_recv |-> report.bytes_recv, bytes_sent |-> report.bytes_sent,
                   latencies |-> stats.latencies]
    /\ UNCHANGED <<report, report_seen, mpc, mon, mon_seen, last, wvars, fvars, lvars, pvars, qvars, tvars>>

\* nothing read yet
RIdle ==
    /\ rpc = "idle"
    /\ report = [completed |-> 0, failed |-> 0, bytes_recv |-> 0, bytes_sent |-> 0]
    /\ report_seen = EmptyStats
    /\ printed = NoValues
    /\ mpc = "sleep"
    /\ mon = NoValues
    /\ mon_seen = EmptyStats
    /\ last = [completed |-> 0, numerator |-> 0, sum |-> 0]

(* ---------------------------------------------------------------------- *)
(* Percentiles, as each reporter computes them from a list of samples.     *)
(* Samples are even numbers of milliseconds, so that the mean of two of    *)
(* them is a whole number.                                                 *)
(* ---------------------------------------------------------------------- *)

\* the lists checked: every short list, and long ones with the slow samples first
SampleLists ==
    LET LongSizes == {10, 11, 20, 21, 100, 101}
    IN UNION {[1..n -> {2, 4}] : n \in 1..MaxShort}
        \cup {[i \in 1..n |-> IF i <= k THEN 4 ELSE 2] : n \in LongSizes, k \in 0..MaxShort}
        \cup {[i \in 1..n |-> IF i <= n - k THEN 4 ELSE 2] : n \in LongSizes, k \in 0..MaxShort}

\* sorted(s)
Sorted(s) ==
    LET vals == {s[j] : j \in DOMAIN s}
        below(v) == Cardinality({j \in DOMAIN s : s[j] < v})
        upto(v) == Cardinality({j \in DOMAIN s : s[j] <= v})
    IN [i \in 1..Len(s) |-> CHOOSE v \in vals : below(v) < i /\ i <= upto(v)]

\* int(n * p), p given in hundredths
Rank(n, hundredths) == (n * hundredths) \div 100

\* sorted_lats[int(n * p)]; Python indexes from 0
AtRank(sorted_lats, hundredths) == sorted_lats[Rank(Len(sorted_lats), hundredths) + 1]

\* a reading of the wrong end of the list
First(sorted_lats) == sorted_lats[1]

\* sorted_lats[-1], max(latencies)
Last(sorted_lats) == sorted_lats[Len(sorted_lats)]

\* statistics.median(s): the middle sample, or the mean of the two middle ones
Median(s) ==
    LET data == Sorted(s)
        n == Len(s)
    IN IF n % 2 = 1 THEN data[(n \div 2) + 1]
       ELSE (data[n \div 2] + data[(n \div 2) + 1]) \div 2

Shown(v) == [shown |-> TRUE, value |-> v]
NotShown == [shown |-> FALSE, value |-> 0]
NothingReported ==
    [min |-> NotShown, p50 |-> NotShown, p90 |-> NotShown, p95 |-> NotShown, p99 |-> NotShown,
     max |-> NotShown]

\* gradual_stress.py, StressResult.latency_stats(): 'min', 'max', 'median', 'p90', 'p95', 'p99';
\* run_gradual_test prints 'median' in the column headed p50
latency_stats ==
    /\ reporter = ""
    /\ reporter' = "latency_stats"
    /\ LET sorted_lats == Sorted(samples)
           n == Len(sorted_lats)
       IN reported' = [min |-> Shown(sorted_lats[1]),
                       max |-> Shown(Last(sorted_lats)),
                       p50 |-> Shown(Median(sorted_lats)),
                       p90 |-> Shown(IF n > 10 THEN AtRank(sorted_lats, 90) ELSE Last(sorted_lats)),
                       p95 |-> Shown(IF n > 20 THEN AtRank(sorted_lats, 95) ELSE Last(sorted_lats)),
                       p99 |-> Shown(IF n > 100 THEN AtRank(sorted_lats, 99) ELSE Last(sorted_lats))]
    /\ UNCHANGED <<samples, wvars, fvars, lvars, pvars, rvars, tvars>>

\* extreme_stress.py, main(): min and max, and p50, p95, p99 only if len(sorted_lat) >= 100
final_report ==
    /\ reporter = ""
    /\ reporter' = "final_report"
    /\ LET sorted_lat == Sorted(samples)
           shown == [NothingReported EXCEPT !.min = Shown(sorted_lat[1]),
                                            !.max = Shown(Last(sorted_lat))]
       IN reported' =
            IF Len(sorted_lat) >= 100
            THEN [shown EXCEPT !.p50 = Shown(sorted_lat[(Len(sorted_lat) \div 2) + 1]),
                               !.p95 = Shown(AtRank(sorted_lat, 95)),
                               !.p99 = Shown(AtRank(sorted_lat, 99))]
            ELSE shown
    /\ UNCHANGED <<samples, wvars, fvars, lvars, pvars, rvars, tvars>>

\* stress_test.py, stats_printer(): p50 = statistics.median(latencies);
\* p99 = sorted(latencies)[int(len(latencies) * 0.99)] if len >= 100 else max(latencies)
stats_printer ==
    /\ reporter = ""
    /\ reporter' = "stats_printer"
    /\ reported' = [NothingReported EXCEPT
                        !.p50 = Shown(Median(samples)),
                        !.p99 = Shown(IF Len(samples) >= 100 THEN AtRank(Sorted(samples), 99)
                                      ELSE Last(Sorted(samples)))]
    /\ UNCHANGED <<samples, wvars, fvars, lvars, pvars, rvars, tvars>>

\* sustained_load.py, run_sustained_test(): the Latency Distribution of the final
\* report: Min, Median, P95, P99, Max, with no test of n
latency_distribution ==
    /\ reporter = ""
    /\ reporter' = "latency_distribution"
    /\ LET sorted_lats == Sorted(samples)
       IN reported' = [min |-> Shown(sorted_lats[1]),
                       p50 |-> Shown(Median(sorted_lats)),
                       p90 |-> NotShown,
                       p95 |-> Shown(AtRank(sorted_lats, 95)),
                       p99 |-> Shown(AtRank(sorted_lats, 99)),
                       max |-> Shown(Last(sorted_lats))]
    /\ UNCHANGED <<samples, wvars, fvars, lvars, pvars, rvars, tvars>>

\* a non-empty list of samples, nothing computed yet
QInit ==
    /\ samples \in SampleLists
    /\ reporter = ""
    /\ reported = NothingReported

QIdle ==
    /\ samples = <<>>
    /\ reporter = ""
    /\ reported = NothingReported

(* ---------------------------------------------------------------------- *)
(* sustained_load.py: workers record outcomes in an IntervalStats, and     *)
(* run_sustained_test() takes and clears the counters once per interval.   *)
(* ---------------------------------------------------------------------- *)
\* IntervalStats.record(success, latency, bytes_recv), called by a worker; a
\* worker that was in a request when running[0] was cleared still records it
record ==
    /\ sustained.pc \in {"loop", "stopped"}
    /\ sustained.recorded < MaxRecords
    /\ \E success \in BOOLEAN :
          sustained' = [sustained EXCEPT !.recorded = @ + 1,
                                         !.completed = IF success THEN @ + 1 ELSE @,
                                         !.latencies = IF success THEN @ + 1 ELSE @,
                                         !.failed = IF success THEN @ ELSE @ + 1]
    /\ UNCHANGED <<wvars, fvars, lvars, pvars, rvars, qvars, keepalive, memory, workload, spike, mix, built>>

run_sustained_test ==
    /\ \/ \* the server answers the check, the workers are started
          /\ sustained.pc = "idle"
          /\ sustained' = [sustained EXCEPT !.pc = "loop"]
       \/ \* one interval: stats.reset(), the totals, the line of the interval, and
          \* if failed > completed * 0.1: the warning; the loop goes on
          /\ sustained.pc = "loop"
          /\ sustained' = [sustained EXCEPT
                              !.completed = 0,
                              !.failed = 0,
                              !.latencies = 0,
                              !.total_completed = @ + sustained.completed,
                              !.total_failed = @ + sustained.failed,
                              !.interval = [completed |-> sustained.completed,
                                            failed |-> sustained.failed,
                                            warning |-> 10 * sustained.failed > sustained.completed]]
       \/ \* the duration is over, or KeyboardInterrupt: running[0] = False
          /\ sustained.pc = "loop"
          /\ sustained' = [sustained EXCEPT !.pc = "stopped"]
       \/ \* the joins have returned or timed out: the final report, from the totals
          /\ sustained.pc = "stopped"
          /\ sustained' = [sustained EXCEPT !.pc = "reported"]
    /\ UNCHANGED <<wvars, fvars, lvars, pvars, rvars, qvars, keepalive, memory, workload, spike, mix, built>>

(* ---------------------------------------------------------------------- *)
(* spike_test.py: baseline workers, then the extra workers of the spike,   *)
(* a recovery window, and the statistics of the three windows.  now is     *)
(* time.time().                                                            *)
(* ---------------------------------------------------------------------- *)
\* a window that leaves out its two ends
GetWindowOpen(data, start, end) ==
    SelectSeq(data, LAMBDA d : start < d.t /\ d.t < end)

\* Stats.get_window(start, end): [(t, l, s) for t, l, s in self.data if start <= t <= end]
GetWindow(data, start, end) ==
    SelectSeq(data, LAMBDA d : start <= d.t /\ d.t <= end)

\* a worker that returns after its first request
SpikeWorkerOnce(w) ==
    /\ \/ /\ spike.worker[w] = "head"
          /\ spike.requests < MaxSamples
          /\ spike' = [spike EXCEPT !.worker[w] = "request", !.requests = @ + 1]
       \/ /\ spike.worker[w] = "request"
          /\ \E success \in BOOLEAN :
                spike' = [spike EXCEPT !.worker[w] = "exited",
                                       !.data = Append(@, [t |-> spike.now, success |-> success])]
    /\ UNCHANGED <<wvars, fvars, lvars, pvars, rvars, qvars, keepalive, memory, workload, sustained, mix, built>>

\* make_request(host, port, stats, running): the loop of one worker thread
SpikeWorker(w) ==
    /\ \/ \* while running[0]: a request is begun
          /\ spike.worker[w] = "head"
          /\ spike.running
          /\ spike.requests < MaxSamples
          /\ spike' = [spike EXCEPT !.worker[w] = "request", !.requests = @ + 1]
       \/ \* while running[0]: read as False, the function returns
          /\ spike.worker[w] = "head"
          /\ ~spike.running
          /\ spike' = [spike EXCEPT !.worker[w] = "exited"]
       \/ \* the request ends, by a response or by an exception: stats.record(...),
          \* which appends (time.time(), latency, success) under the lock
          /\ spike.worker[w] = "request"
          /\ \E success \in BOOLEAN :
                spike' = [spike EXCEPT !.worker[w] = "head",
                                       !.data = Append(@, [t |-> spike.now, success |-> success])]
    /\ UNCHANGED <<wvars, fvars, lvars, pvars, rvars, qvars, keepalive, memory, workload, sustained, mix, built>>

run_spike_test ==
    LET threads == Cardinality({w \in 1..SPIKE_CONCURRENCY : spike.worker[w] # "unstarted"})
    IN
    /\ \/ \* the server answers the check: test_start, baseline_start = time.time()
          /\ spike.pc = "idle"
          /\ spike' = [spike EXCEPT !.pc = "start_baseline", !.baseline_start = spike.now]
       \/ \* the check fails: return
          /\ spike.pc = "idle"
          /\ spike' = [spike EXCEPT !.pc = "done"]
       \/ \* for _ in range(BASELINE_CONCURRENCY): t.start()
          /\ spike.pc = "start_baseline"
          /\ threads < BASELINE_CONCURRENCY
          /\ spike' = [spike EXCEPT !.worker[threads + 1] = "head"]
       \/ \* time.sleep(BASELINE_DURATION) is entered
          /\ spike.pc = "start_baseline"
          /\ threads = BASELINE_CONCURRENCY
          /\ spike' = [spike EXCEPT !.pc = "sleep_baseline", !.since = spike.now]
       \/ \* the sleep is over: baseline_end = time.time()
          /\ spike.pc = "sleep_baseline"
          /\ spike.now > spike.since
          /\ spike' = [spike EXCEPT !.pc = "mark_spike", !.baseline_end = spike.now]
       \/ \* spike_start = time.time()
          /\ spike.pc = "mark_spike"
          /\ spike' = [spike EXCEPT !.pc = "start_spike", !.spike_start = spike.now]
       \/ \* for _ in range(SPIKE_CONCURRENCY - BASELINE_CONCURRENCY): t.start()
          /\ spike.pc = "start_spike"
          /\ threads < SPIKE_CONCURRENCY
          /\ spike' = [spike EXCEPT !.worker[threads + 1] = "head"]
       \/ \* time.sleep(SPIKE_DURATION) is entered
          /\ spike.pc = "start_spike"
          /\ threads >= SPIKE_CONCURRENCY
          /\ spike' = [spike EXCEPT !.pc = "sleep_spike", !.since = spike.now]
       \/ \* the sleep is over: spike_end = time.time()
          /\ spike.pc = "sleep_spike"
          /\ spike.now > spike.since
          /\ spike' = [spike EXCEPT !.pc = "mark_recovery", !.spike_end = spike.now]
       \/ \* recovery_start = time.time(); time.sleep(RECOVERY_DURATION) is entered
          /\ spike.pc = "mark_recovery"
          /\ spike' = [spike EXCEPT !.pc = "sleep_recovery", !.recovery_start = spike.now,
                                    !.since = spike.now]
       \/ \* the sleep is over: recovery_end = time.time()
          /\ spike.pc = "sleep_recovery"
          /\ spike.now > spike.since
          /\ spike' = [spike EXCEPT !.pc = "stop", !.recovery_end = spike.now]
       \/ \* running[0] = False
          /\ spike.pc = "stop"
          /\ spike' = [spike EXCEPT !.pc = "join", !.running = FALSE]
       \/ \* for t in threads: t.join(timeout=1): each returns, the thread ended or not
          /\ spike.pc = "join"
          /\ spike' = [spike EXCEPT !.pc = "report"]
       \/ \* print_phase_stats, three times: window = stats.get_window(start, end)
          /\ spike.pc = "report"
          /\ spike' = [spike EXCEPT
                         !.pc = "done",
                         !.windows =
                            [baseline |-> GetWindow(spike.data, spike.baseline_start, spike.baseline_end),
                             spike |-> GetWindow(spike.data, spike.spike_start, spike.spike_end),
                             recovery |-> GetWindow(spike.data, spike.recovery_start, spike.recovery_end)]]
    /\ UNCHANGED <<wvars, fvars, lvars, pvars, rvars, qvars, keepalive, memory, workload, sustained, mix, built>>

(* ---------------------------------------------------------------------- *)
(* endpoint_mix.py run_endpoint_test and final_benchmark.py                *)
(* benchmark_endpoint: a total divided among threads.                      *)
(* ---------------------------------------------------------------------- *)
\* worker(): one pass of `for _ in range(num_requests)`: the request is
\* recorded as a success or as an error, then progress[0] += 1
worker(w) ==
    /\ mix.pc = "running"
    /\ mix.left[w] > 0
    /\ \E success \in BOOLEAN :
          mix' = [mix EXCEPT !.left[w] = @ - 1,
                             !.progress = @ + 1,
                             !.count = IF success THEN @ + 1 ELSE @,
                             !.errors = IF success THEN @ ELSE @ + 1]
    /\ UNCHANGED <<wvars, fvars, lvars, pvars, rvars, qvars, keepalive, memory, workload, sustained, spike, built>>

\* run_endpoint_test(host, port, num_requests, concurrency)
run_endpoint_test ==
    /\ \/ \* the server check passes; requests_per_worker = num_requests // concurrency;
          \* the threads are made with it and started
          /\ mix.pc = "idle"
          /\ \E num_requests \in 1..MixRequests, concurrency \in 1..MixConcurrency :
                mix' = [mix EXCEPT !.pc = "running",
                                   !.num_requests = num_requests,
                                   !.concurrency = concurrency,
                                   !.requests_per_worker = num_requests \div concurrency,
                                   !.left = [w \in 1..MixConcurrency |->
                                                IF w <= concurrency
                                                THEN num_requests \div concurrency ELSE 0]]
       \/ \* the server check fails: return
          /\ mix.pc = "idle"
          /\ mix' = [mix EXCEPT !.pc = "returned"]
       \/ \* no thread is alive; t.join() for each; the report
          /\ mix.pc = "running"
          /\ \A w \in 1..MixConcurrency : mix.left[w] = 0
          /\ mix' = [mix EXCEPT !.pc = "report"]
    /\ UNCHANGED <<wvars, fvars, lvars, pvars, rvars, qvars, keepalive, memory, workload, sustained, spike, built>>

(* ---------------------------------------------------------------------- *)
(* sustained_load.py worker(), endpoint_mix.py worker(): requests on one   *)
(* keep-alive connection, each answered by one sock.recv.  unread is the   *)
(* number of bytes the server has sent or will send for the requests made  *)
(* on the connection and that no recv has returned yet.                    *)
(* ---------------------------------------------------------------------- *)
sustained_worker ==
    /\ \/ \* while running[0]: the socket is there, or is made and connected
          /\ keepalive.pc = "head"
          /\ keepalive.running
          /\ keepalive.completed + keepalive.failed < MaxOutcomes
          /\ keepalive' = [keepalive EXCEPT !.pc = "send", !.sock = TRUE,
                                  !.unread = IF keepalive.sock THEN @ ELSE 0]
       \/ \* sock.connect raises: stats.record(False, 0, 0); the socket is closed
          /\ keepalive.pc = "head"
          /\ keepalive.running
          /\ ~keepalive.sock
          /\ keepalive.completed + keepalive.failed < MaxOutcomes
          /\ keepalive' = [keepalive EXCEPT !.failed = @ + 1]
       \/ \* sock.sendall(request) returns: the server answers with some bytes
          /\ keepalive.pc = "send"
          /\ \E length \in 1..MaxResponse :
                keepalive' = [keepalive EXCEPT !.pc = "recv", !.unread = @ + length]
       \/ \* response = sock.recv(4096) returns bytes, as many as have arrived:
          \* stats.record(True, elapsed, len(response))
          /\ keepalive.pc = "recv"
          /\ \E n \in 1..keepalive.unread :
                keepalive' = [keepalive EXCEPT !.pc = "head", !.unread = @ - n, !.completed = @ + 1]
       \/ \* sendall or recv raises, or recv returns b"": stats.record(False, 0, 0);
          \* sock.close(); sock = None
          /\ keepalive.pc \in {"send", "recv"}
          /\ keepalive' = [keepalive EXCEPT !.pc = "head", !.sock = FALSE, !.unread = 0,
                                  !.failed = @ + 1]
       \/ \* running[0] is False: the loop ends, the socket is closed
          /\ keepalive.pc = "head"
          /\ ~keepalive.running
          /\ keepalive' = [keepalive EXCEPT !.pc = "done", !.sock = FALSE, !.unread = 0]
    /\ UNCHANGED <<wvars, fvars, lvars, pvars, rvars, qvars, memory, workload, sustained, spike, mix, built>>

(* ---------------------------------------------------------------------- *)
(* memory_stress.py: no queue; each worker makes requests until it has     *)
(* REQUESTS_PER_CONNECTION of them done.  There TOTAL_REQUESTS = 100_000   *)
(* is NUM_CONNECTIONS * REQUESTS_PER_CONNECTION = 200 * 500.               *)
(* ---------------------------------------------------------------------- *)
memory_worker(w) ==
    /\ \/ \* while running and requests_done < REQUESTS_PER_CONNECTION:
          /\ memory.pc[w] = "head"
          /\ memory' = [memory EXCEPT !.pc[w] =
                           IF memory.running /\ memory.requests_done[w] < REQUESTS_PER_CONNECTION
                           THEN "request" ELSE "done"]
       \/ \* the response is read: completed += 1; requests_done += 1
          /\ memory.pc[w] = "request"
          /\ memory' = [memory EXCEPT !.pc[w] = "head",
                                      !.completed = @ + 1,
                                      !.requests_done[w] = @ + 1]
       \/ \* except Exception: failed += 1; the socket is closed; time.sleep(0.1)
          /\ memory.pc[w] = "request"
          /\ memory.failed < MaxFailures
          /\ memory' = [memory EXCEPT !.pc[w] = "head", !.failed = @ + 1]
    /\ UNCHANGED <<wvars, fvars, lvars, pvars, rvars, qvars, keepalive, workload, sustained, spike, mix, built>>

\* main(): done = completed + failed; if done >= TOTAL_REQUESTS: break; or
\* KeyboardInterrupt; then running = False
memory_main ==
    /\ memory.running
    /\ \/ \* the wait loop sees the total reached
          memory.completed + memory.failed >= NUM_CONNECTIONS * REQUESTS_PER_CONNECTION
       \/ \* Ctrl-C, at any moment
          TRUE
    /\ memory' = [memory EXCEPT !.running = FALSE]
    /\ UNCHANGED <<wvars, fvars, lvars, pvars, rvars, qvars, keepalive, workload, sustained, spike, mix, built>>

(* ---------------------------------------------------------------------- *)
(* The weighted endpoint table and the workload main() generates from it.  *)
(* random.choice(WEIGHTED_ENDPOINTS) is an index i of the table, each as   *)
(* likely as any other; random.random() is one of ten tenths u, each as    *)
(* likely as any other, and `random.random() < 0.1` is u < 1.              *)
(* ---------------------------------------------------------------------- *)
\* WEIGHTED_ENDPOINTS = []; for endpoint, weight in ENDPOINTS:
\*     WEIGHTED_ENDPOINTS.extend([endpoint] * weight)
build_weighted_endpoints ==
    /\ \/ \* the module is loaded with its ENDPOINTS list
          /\ workload.pc = "idle"
          /\ \E weights \in [1..2 -> 1..MaxWeight] :
                workload' = [workload EXCEPT
                                !.pc = "build",
                                !.ENDPOINTS = <<[endpoint |-> "/", weight |-> weights[1]],
                                                [endpoint |-> "/large", weight |-> weights[2]]>>]
       \/ \* one pass of the for loop, for the entry after those already taken
          /\ workload.pc = "build"
          /\ LET k == workload.taken + 1
             IN workload' = [workload EXCEPT
                                !.pc = IF k = Len(workload.ENDPOINTS) THEN "main" ELSE "build",
                                !.taken = k,
                                !.WEIGHTED_ENDPOINTS =
                                    @ \o [i \in 1..workload.ENDPOINTS[k].weight |->
                                             workload.ENDPOINTS[k].endpoint]]
    /\ UNCHANGED <<wvars, fvars, lvars, pvars, rvars, qvars, keepalive, memory, sustained, spike, mix, built>>

\* main(): endpoint = random.choice(WEIGHTED_ENDPOINTS); if random.random() < 0.1:
\* the task is ("/echo", body), else (endpoint, None)
ChosenEndpoint(table, i, u) == IF u < 1 THEN "/echo" ELSE table[i]

\* main(): for i in range(TOTAL_REQUESTS): one task is put on the queue
generate_workload ==
    /\ workload.pc = "main"
    /\ Len(workload.queued) < TOTAL_REQUESTS
    /\ \E i \in 1..Len(workload.WEIGHTED_ENDPOINTS), u \in 0..9 :
          workload' = [workload EXCEPT
                          !.queued = Append(@, ChosenEndpoint(workload.WEIGHTED_ENDPOINTS, i, u))]
    /\ UNCHANGED <<wvars, fvars, lvars, pvars, rvars, qvars, keepalive, memory, sustained, spike, mix, built>>

(* ---------------------------------------------------------------------- *)
(* create_request, as a value: the request line's method, the Connection   *)
(* header, the Content-Length header if there is one, and the bytes after  *)
(* the blank line. A body is b'X' * len.                                    *)
(* ---------------------------------------------------------------------- *)
create_request(endpoint, keep_alive, body) ==
    LET truthy == body.present /\ body.len > 0           \* `if body`
    IN [method |-> IF truthy THEN "POST" ELSE "GET",
        endpoint |-> endpoint,
        connection |-> IF keep_alive THEN "keep-alive" ELSE "close",
        content_length |-> IF truthy THEN [present |-> TRUE, value |-> body.len]
                           ELSE [present |-> FALSE, value |-> 0],
        body_len |-> IF truthy THEN body.len ELSE 0]

\* run_sustained_test and run_spike_test not called
TIdle ==
    /\ sustained = [pc |-> "idle", recorded |-> 0, completed |-> 0, failed |-> 0, latencies |-> 0,
                    total_completed |-> 0, total_failed |-> 0,
                    interval |-> [completed |-> 0, failed |-> 0, warning |-> FALSE]]
    /\ spike = [pc |-> "idle", running |-> TRUE, now |-> 0, since |-> 0,
                worker |-> [w \in 1..SPIKE_CONCURRENCY |-> "unstarted"],
                requests |-> 0, data |-> <<>>,
                baseline_start |-> 0, baseline_end |-> 0, spike_start |-> 0, spike_end |-> 0,
                recovery_start |-> 0, recovery_end |-> 0,
                windows |-> [baseline |-> <<>>, spike |-> <<>>, recovery |-> <<>>]]
    /\ mix = [pc |-> "idle", num_requests |-> 0, concurrency |-> 0, requests_per_worker |-> 0,
              left |-> [w \in 1..MixConcurrency |-> 0], progress |-> 0, count |-> 0, errors |-> 0]
    /\ built = <<>>
    /\ keepalive = [pc |-> "head", running |-> TRUE, sock |-> FALSE, unread |-> 0,
               completed |-> 0, failed |-> 0]
    /\ memory = [pc |-> [w \in Workers |-> "head"], requests_done |-> [w \in Workers |-> 0],
                 running |-> TRUE, completed |-> 0, failed |-> 0]
    /\ workload = [pc |-> "idle", ENDPOINTS |-> <<>>, taken |-> 0, WEIGHTED_ENDPOINTS |-> <<>>,
                   queued |-> <<>>]

OIdle == LInit /\ PIdle /\ RIdle /\ QIdle /\ TIdle

(* ---------------------------------------------------------------------- *)
(* Specifications.                                                         *)
(* ---------------------------------------------------------------------- *)
\* GetTimeout is left out: with one None per worker queued before the workers
\* start, the queue is never empty while a worker waits on it (GetNeverEmpty)
WorkerStep(w) ==
    \/ LoopExit(w)
    \/ LoopEnter(w)
    \/ GetPill(w)
    \/ GetTask(w)
    \/ Reuse(w)
    \/ ConnectOk(w)
    \/ ConnectFail(w)
    \/ Requeue(w)
    \/ SocketFail(w)
    \/ SendOk(w)
    \/ SendFail(w)
    \/ RecvOk(w)
    \/ RecvFail(w)


Init == WInit /\ FIdle /\ OIdle

Next ==
    \/ \E w \in Workers : WorkerStep(w)
    \/ MainStop
    \/ Interrupt

\* threads that can run do run; nobody presses Ctrl-C
FairNext ==
    \/ \E w \in Workers : WorkerStep(w)
    \/ MainStop

FairSpec ==
    /\ Init
    /\ [][FairNext]_vars
    /\ \A w \in Workers : WF_vars(WorkerStep(w))
    /\ WF_vars(MainStop)

Spec == Init /\ [][Next]_vars

\* a run in which every connect, send and response succeeds and nobody presses Ctrl-C
SuccessStep(w) ==
    \/ LoopExit(w)
    \/ LoopEnter(w)
    \/ GetPill(w)
    \/ GetTask(w)
    \/ Reuse(w)
    \/ ConnectOk(w)
    \/ SendOk(w)
    \/ RecvOk(w)

SuccessSpec ==
    /\ Init
    /\ [][(\E w \in Workers : SuccessStep(w)) \/ MainStop]_vars
    /\ \A w \in Workers : WF_vars(SuccessStep(w))
    /\ WF_vars(MainStop)

\* the run together with its two readers; of the failures, those that count
\* in requests_failed
ReportSpec ==
    /\ Init
    /\ [][\/ \E w \in Workers : SuccessStep(w)
          \/ \E w \in Workers : SendFail(w)
          \/ \E w \in Workers : RecvFail(w)
          \/ MainStop
          \/ Interrupt
          \/ MonitorRead
          \/ MonitorPrint
          \/ ReportRead
          \/ ReportPrint]_vars

\* main() before the queue is filled and the workers are started
WNotStarted ==
    /\ request_queue = <<>>
    /\ running = TRUE
    /\ stats = EmptyStats
    /\ pc = [w \in Workers |-> "head"]
    /\ task = [w \in Workers |-> None]
    /\ sock = [w \in Workers |-> "none"]
    /\ requests_on_conn = [w \in Workers |-> 0]
    /\ mainpc = "wait"
    /\ served = [w \in Workers |-> 0]
    /\ hist = [dequeued |-> 0, requeued |-> 0, pills |-> 0]

\* one call of parse_response against each peer
FramerInit == WNotStarted /\ FInit /\ OIdle

FramerSpec == FramerInit /\ [][FramerNext]_vars

\* the threads at the grain of locks; the data of the run is not followed
LockInit == WNotStarted /\ FIdle /\ LInit /\ PIdle /\ RIdle /\ QIdle /\ TIdle

LockSpec ==
    /\ LockInit
    /\ [][\/ \E w \in Workers : LWorkerStep(w)
          \/ LMainStep
          \/ \E w \in Workers : SWorkerStep(w)
          \/ run_gradual_test]_vars

\* each reporter on each list of samples
PercentileInit == WNotStarted /\ FIdle /\ LInit /\ PIdle /\ RIdle /\ QInit /\ TIdle

PercentileSpec == PercentileInit /\ [][latency_stats \/ final_report \/ stats_printer \/ latency_distribution]_vars

\* sustained_load.py: the intervals of one run
SustainedSpec == LockInit /\ [][record \/ run_sustained_test]_vars

\* spike_test.py: one run, with the clock going on at any moment
SpikeSpec ==
    /\ LockInit
    /\ [][\/ run_spike_test
          \/ \E w \in 1..SPIKE_CONCURRENCY : SpikeWorker(w)
          \/ /\ spike.pc \notin {"idle", "done"}
             /\ spike.now < MaxTime
             /\ spike' = [spike EXCEPT !.now = @ + 1]
             /\ UNCHANGED <<wvars, fvars, lvars, pvars, rvars, qvars, keepalive, memory, workload, sustained, mix, built>>]_vars

\* endpoint_mix.py: one run, for each total and each number of threads
MixSpec == LockInit /\ [][run_endpoint_test \/ \E w \in 1..MixConcurrency : worker(w)]_vars

\* create_request called for one task after another; a body is None, b'' or
\* b'X' * len
CreateSpec ==
    /\ LockInit
    /\ [][/\ Len(built) < MaxBuilt
          /\ \E endpoint \in EndpointNames, keep_alive \in BOOLEAN,
                body \in {NoBody} \cup [present : {TRUE}, len : 0..MaxBuilt] :
                built' = Append(built, [endpoint |-> endpoint, keep_alive |-> keep_alive,
                                        body |-> body,
                                        request |-> create_request(endpoint, keep_alive, body)])
          /\ UNCHANGED <<wvars, fvars, lvars, pvars, rvars, qvars, keepalive, memory, workload, sustained, spike, mix>>]_vars

\* sustained_load.py: one worker on its connection, until run_sustained_test
\* sets running[0] = False
KeepAliveSpec ==
    /\ LockInit
    /\ [][\/ sustained_worker
          \/ /\ keepalive.running
             /\ keepalive' = [keepalive EXCEPT !.running = FALSE]
             /\ UNCHANGED <<wvars, fvars, lvars, pvars, rvars, qvars, memory, workload,
                            sustained, spike, mix, built>>]_vars

\* memory_stress.py: the workers and the end of main()'s wait
MemorySpec == LockInit /\ [][(\E w \in Workers : memory_worker(w)) \/ memory_main]_vars

\* the table is built, then main() fills the queue
WorkloadSpec == LockInit /\ [][build_weighted_endpoints \/ generate_workload]_vars

\* the start of a program, up to the moment its workers run
PreflightInit == WNotStarted /\ FIdle /\ LInit /\ PInit /\ RIdle /\ QIdle /\ TIdle

PreflightSpec == PreflightInit /\ [][ProbeOk \/ ProbeFail \/ Fill \/ StartWorker]_vars

(* ---------------------------------------------------------------------- *)
(* One request of one worker, from the send to the next dequeue, with the  *)
(* response read by parse_response.                                        *)
(* ---------------------------------------------------------------------- *)
Caller == CHOOSE w \in Workers : \A v \in Workers : w <= v

\* status, body_len = parse_response(sock) has returned:
\* if status is None: raise Exception("No response"), else the success block
ParseReturned(w) ==
    /\ pc[w] = "recv"
    /\ fpc = "done"
    /\ IF result.ok
       THEN \E elapsed \in ElapsedValues : Completed(w, result.body_len, elapsed)
       ELSE RequestFailed(w)

\* the first worker has dequeued the first task, connected and sent the request
CallInit ==
    /\ \E q \in InitialQueues :
          /\ request_queue = Tail(q)
          /\ task = [w \in Workers |-> IF w = Caller THEN Head(q) ELSE None]
          /\ stats = [EmptyStats EXCEPT !.requests_sent = 1,
                                        !.bytes_sent = RequestLen(Head(q).endpoint, Head(q).body)]
    /\ running = TRUE
    /\ pc = [w \in Workers |-> IF w = Caller THEN "recv" ELSE "head"]
    /\ sock = [w \in Workers |-> IF w = Caller THEN "open" ELSE "none"]
    /\ requests_on_conn = [w \in Workers |-> 0]
    /\ mainpc = "wait"
    /\ served = [w \in Workers |-> 0]
    /\ hist = [dequeued |-> 1, requeued |-> 0, pills |-> 0]
    /\ FInit
    /\ OIdle

CallSpec ==
    /\ CallInit
    /\ [][\/ FramerNext
          \/ ParseReturned(Caller)
          \/ LoopEnter(Caller)
          \/ GetTask(Caller)]_vars

(* ---------------------------------------------------------------------- *)
(* Properties.                                                             *)
(* ---------------------------------------------------------------------- *)
Holding == {w \in Workers : pc[w] \in {"conn", "requeue", "send", "recv"}}
QueuedTasks == {i \in 1..Len(request_queue) : request_queue[i] # None}
Outcomes == stats.requests_completed + stats.requests_failed
AllExited == \A w \in Workers : pc[w] = "done"

\* the queue is never found empty by a waiting worker, so queue.Empty is never raised
GetNeverEmpty == \A w \in Workers : pc[w] = "get" => request_queue # <<>>

\* C1: requests_completed + requests_failed never exceeds TOTAL_REQUESTS, nor the
\* number of dequeues so far; a step changes the sum by at most one, and then
\* changes exactly one of the two counters.
C1_OutcomesBounded ==
    /\ [](Outcomes <= TOTAL_REQUESTS /\ Outcomes <= hist.dequeued)
    /\ [][/\ stats'.requests_completed - stats.requests_completed \in {0, 1}
          /\ stats'.requests_failed - stats.requests_failed \in {0, 1}
          /\ Outcomes' - Outcomes \in {0, 1}]_vars

C1_Witness ==
    /\ Outcomes = TOTAL_REQUESTS
    /\ stats.requests_completed > 0
    /\ stats.requests_failed > 0

\* C2: every task is in exactly one place: counted as completed or failed, in
\* the queue, or held by one worker; once all workers have exited,
\* completed + failed = dequeues - re-enqueues.
C2_TasksConserved ==
    /\ TOTAL_REQUESTS = Outcomes + Cardinality(QueuedTasks) + Cardinality(Holding)
    /\ \A i, j \in QueuedTasks : request_queue[i].id = request_queue[j].id => i = j
    /\ \A v, w \in Holding : task[v].id = task[w].id => v = w
    /\ \A i \in QueuedTasks : \A w \in Holding : request_queue[i].id # task[w].id
    /\ AllExited => Outcomes = hist.dequeued - hist.requeued

C2_Witness ==
    /\ AllExited
    /\ hist.requeued > 0
    /\ stats.requests_completed > 0
    /\ stats.requests_failed > 0

\* C3: a task that a worker is putting back after a failed connect is later
\* dequeued again and attempted by some worker (no interrupt, fair scheduling).
C3_RequeuedTaskRetried ==
    \A i \in TaskIds :
        (\E w \in Workers : pc[w] = "requeue" /\ task[w].id = i)
            ~> (\E w \in Workers : pc[w] = "conn" /\ task[w].id = i)

\* C4: a failed connect adds exactly 1 to connection_errors and nothing else to
\* the statistics, puts the held task at the tail of the queue once, and leaves
\* sock = None; the next send of that worker is on a freshly connected socket.
C4_ConnectFailureEffect ==
    [][\A w \in Workers :
        /\ (pc[w] = "conn" /\ pc'[w] = "requeue") =>
              /\ stats' = [stats EXCEPT !.connection_errors = @ + 1]
              /\ request_queue' = request_queue
              /\ task'[w] = task[w]
        /\ (pc[w] = "requeue" /\ pc'[w] # "requeue") =>
              /\ request_queue' = Append(request_queue, task[w])
              /\ stats' = stats
              /\ sock'[w] = "none"
              /\ pc'[w] = "head"
        /\ (pc[w] = "conn" /\ sock[w] = "none" /\ pc'[w] = "send") =>
              sock'[w] = "open" /\ served'[w] = 0]_vars

C4_Witness ==
    \E w \in Workers :
        /\ pc[w] = "head"
        /\ sock[w] = "none"
        /\ stats.connection_errors = 1
        /\ hist.requeued = 1
        /\ request_queue # <<>>
        /\ request_queue[Len(request_queue)] # None
        /\ Outcomes = 0
        /\ stats.requests_sent = 0

\* C5: a failed send or a failed response adds exactly 1 to requests_failed and
\* nothing else to the statistics, leaves sock = None and requests_on_conn = 0,
\* and leaves the queue as it was; requests are only ever sent on an open socket.
C5_RequestFailureEffect ==
    /\ [][\A w \in Workers :
            (/\ pc[w] \in {"send", "recv"}
             /\ pc'[w] = "head"
             /\ stats'.requests_completed = stats.requests_completed) =>
                /\ stats' = [stats EXCEPT !.requests_failed = @ + 1]
                /\ sock'[w] = "none"
                /\ requests_on_conn'[w] = 0
                /\ request_queue' = request_queue]_vars
    /\ [](\A w \in Workers : pc[w] \in {"send", "recv"} => sock[w] = "open")

C5_Witness ==
    \E w \in Workers :
        /\ pc[w] = "head"
        /\ sock[w] = "none"
        /\ requests_on_conn[w] = 0
        /\ hist.dequeued = REQUESTS_PER_CONNECTION
        /\ stats.requests_sent = REQUESTS_PER_CONNECTION
        /\ stats.requests_completed = REQUESTS_PER_CONNECTION - 1
        /\ stats.requests_failed = 1
        /\ stats.connection_errors = 0
        /\ \A v \in Workers \ {w} : sock[v] = "none" /\ pc[v] \in {"head", "get"}

\* C6: whenever a worker is about to send, the connection in use has served fewer
\* than REQUESTS_PER_CONNECTION successful requests, and so says requests_on_conn.
C6_RotatedBeforeSend ==
    \A w \in Workers :
        pc[w] = "send" =>
            /\ sock[w] = "open"
            /\ served[w] < REQUESTS_PER_CONNECTION
            /\ requests_on_conn[w] < REQUESTS_PER_CONNECTION

C6_Witness ==
    \E w \in Workers :
        /\ pc[w] = "send"
        /\ served[w] = 0
        /\ stats.requests_completed = REQUESTS_PER_CONNECTION
        /\ hist.dequeued = REQUESTS_PER_CONNECTION + 1
        /\ stats.requests_failed = 0
        /\ stats.connection_errors = 0
        /\ \A v \in Workers \ {w} : sock[v] = "none" /\ pc[v] \in {"head", "get"}

\* C7: a worker whose sock is None has requests_on_conn = 0.
C7_NoSocketNoCount ==
    \A w \in Workers : sock[w] = "none" => requests_on_conn[w] = 0

\* C7 (amended): requests_on_conn is the number of successes on the connection a
\* worker holds; without a connection it is 0, or still REQUESTS_PER_CONNECTION
\* after a rotation whose connect failed.
C7_CountMatchesConnection ==
    \A w \in Workers :
        /\ sock[w] = "open" => requests_on_conn[w] = served[w]
        /\ sock[w] = "none" => requests_on_conn[w] \in {0, REQUESTS_PER_CONNECTION}
        /\ requests_on_conn[w] <= REQUESTS_PER_CONNECTION

C7_Witness ==
    \E w \in Workers :
        /\ sock[w] = "none"
        /\ requests_on_conn[w] = REQUESTS_PER_CONNECTION
        /\ pc[w] = "head"
        /\ stats.connection_errors = 1

\* C8: a body_length returned with a status equals the number of body bytes read
\* from the socket for that response.
C8_BodyLengthIsBytesRead ==
    (fpc = "done" /\ result.ok) => result.body_len = BodyInResponse(response)

\* C9: a response with a good status line and no Content-Length header, or one
\* whose value is not an integer, is returned as (status, 0).
C9_BadLengthIsZeroBody ==
    (/\ fpc = "done"
     /\ event = "none"
     /\ sent.status_kind = "valid"
     /\ sent.cl_kind \in {"absent", "invalid"}) =>
        result = [ok |-> TRUE, status |-> sent.status, body_len |-> 0]

\* C10: however the bytes of a well-formed response are cut into reads,
\* parse_response returns as soon as the last byte is read, not before, with the
\* status code and Content-Length the peer sent.
WellFormed == sent.status_kind = "valid" /\ sent.cl_kind \in {"valid", "absent"}

C10_SplitIndependent ==
    (WellFormed /\ event = "none") =>
        /\ (response = wire) = (fpc = "done")
        /\ fpc = "done" => result = [ok |-> TRUE, status |-> sent.status, body_len |-> sent.cl]

C10_Witness ==
    /\ WellFormed
    /\ event = "none"
    /\ fpc = "done"
    /\ splits = {"terminator", "length line"}
    /\ sent.cl = MaxContentLength
    /\ result.body_len = MaxContentLength

\* C11: a socket timeout, a zero-length read before the header block is complete
\* and a status line that cannot be parsed each make parse_response return no
\* status; the worker then counts exactly one failure, drops the connection and
\* is back at the head of its loop, from where it dequeues the next task.
C11_FramingFailureIsOneFailure ==
    /\ []((/\ fpc = "done"
           /\ \/ event = "timeout"
              \/ event = "eof" /\ Find(response, Terminator) = 0
              \/ sent.status_kind # "valid") => result = NoResponse)
    /\ [][(pc[Caller] = "recv" /\ pc'[Caller] # "recv" /\ ~result.ok) =>
            /\ stats' = [stats EXCEPT !.requests_failed = @ + 1]
            /\ pc'[Caller] = "head"
            /\ sock'[Caller] = "none"
            /\ running' = running]_vars
    /\ []((pc[Caller] = "head" /\ request_queue # <<>>) => ENABLED LoopEnter(Caller))

C11_Witness ==
    /\ sent.status_kind = "not a number"
    /\ event = "none"
    /\ response = wire
    /\ stats.requests_failed = 1
    /\ stats.requests_completed = 0
    /\ pc[Caller] = "conn"
    /\ task[Caller].id = 2

\* C12: the latency store never holds more than its capacity; a success below
\* the capacity appends its sample at the end, a success at the capacity leaves
\* the store as it is, and both add 1 to requests_completed.
C12_LatencyStoreBounded ==
    /\ [](Len(stats.latencies) <= LATENCY_CAP)
    /\ [][stats'.requests_completed # stats.requests_completed =>
            /\ stats'.requests_completed = stats.requests_completed + 1
            /\ IF Len(stats.latencies) < LATENCY_CAP
               THEN /\ Len(stats'.latencies) = Len(stats.latencies) + 1
                    /\ SubSeq(stats'.latencies, 1, Len(stats.latencies)) = stats.latencies
               ELSE stats'.latencies = stats.latencies]_vars

C12_Witness ==
    /\ Len(stats.latencies) = LATENCY_CAP
    /\ stats.requests_completed > LATENCY_CAP
    /\ \E v, w \in Workers : v # w /\ served[v] > 0 /\ served[w] > 0

\* C13: once running is False it stays False, every worker that has not left
\* its loop has a step it can take, and each step brings it nearer to the exit:
\* a worker at the loop head leaves at its next step, a worker waiting on the
\* queue or busy with a task finishes that one dequeue or that one task (by
\* success or by failure) and never starts another.  StepsToExit bounds the
\* steps a worker still takes, so with threads that keep running all exit.
C13_StopFlagEndsWorkers ==
    /\ [][LET StepsToExit(position) ==
                  CASE position = "done" -> 0
                    [] position = "head" -> 1
                    [] position = "requeue" -> 2
                    [] position = "recv" -> 2
                    [] position = "send" -> 3
                    [] position = "conn" -> 4
                    [] position = "get" -> 5
          IN ~running =>
                /\ ~running'
                /\ \A w \in Workers :
                      /\ pc'[w] # pc[w] => StepsToExit(pc'[w]) < StepsToExit(pc[w])
                      /\ (pc[w] = "head" /\ pc'[w] # pc[w]) => pc'[w] = "done"]_vars
    /\ [](~running => \A w \in Workers : pc[w] # "done" => ENABLED WorkerStep(w))

C13_Witness ==
    /\ ~running
    /\ AllExited
    /\ hist.pills = 0
    /\ Outcomes < TOTAL_REQUESTS
    /\ stats.requests_completed > 0
    /\ stats.requests_failed > 0

\* C14: a worker that has left its loop, by a None from the queue or by the stop
\* flag, holds no open connection: the step that ends it closes its socket.
C14_ExitedWorkerHoldsNoConnection ==
    \A w \in Workers : pc[w] = "done" => sock[w] \in {"none", "closed"}

C14_Witness ==
    /\ AllExited
    /\ hist.pills > 0
    /\ hist.pills < NUM_CONNECTIONS
    /\ \A w \in Workers : sock[w] = "closed"

\* C15: no thread is inside `with stats_lock:` while it is in a call that can
\* block (queue get or put, connect, sendall, recv, sleep), and no thread is
\* inside two locks at once: stats_lock with the queue's mutex, or queue_lock
\* with the result lock of the staircase runner.  Each lock has one holder.
C15_LocksNotHeldAcrossBlocking ==
    /\ \A t \in Workers \cup {MainThread} :
          /\ t \in stats_lock => lpc[t] \notin Blocking
          /\ ~(t \in stats_lock /\ t \in queue_mutex)
    /\ \A w \in Workers :
          /\ ~(w \in queue_lock /\ w \in lock)
          /\ w \in queue_lock \cup lock => spc[w] # "request"
    /\ Cardinality(stats_lock) <= 1
    /\ Cardinality(queue_mutex) <= 1
    /\ Cardinality(queue_lock) <= 1
    /\ Cardinality(lock) <= 1

C15_Witness ==
    /\ \E v, w \in Workers :
          /\ v \in stats_lock /\ lpc[v] = "err_cs"
          /\ w \in queue_mutex /\ lpc[w] = "put_in"
    /\ lpc[MainThread] = "wait_acq"

\* the same in the staircase runner: one worker in each of its two locks
C15_StaircaseWitness ==
    \E v, w \in Workers : v \in queue_lock /\ w \in lock /\ level_queue > 0

\* the run ends with every task completed, and the wait loop ends by its own test
RunEndsComplete ==
    /\ <>[](/\ AllExited
            /\ mainpc = "report"
            /\ stats.requests_completed = TOTAL_REQUESTS
            /\ stats.requests_failed = 0)
    /\ [](mainpc = "report" => WaitDone)

\* C16: a run in which every connect, send and response succeeds ends with
\* requests_completed = TOTAL_REQUESTS and requests_failed = 0, the wait loop
\* sees completed + failed >= TOTAL_REQUESTS and ends, and every worker exits
\* after dequeuing exactly one None.
C16_EveryWorkerTakesOnePill ==
    /\ RunEndsComplete
    /\ [](AllExited => hist.pills = NUM_CONNECTIONS)

\* C16 (amended): the same, but a worker exits either after dequeuing one None or,
\* if it is back at the loop head after main() has set running to False, without
\* dequeuing one; the None it did not take stays in the queue.
C16_WorkersExitByPillOrFlag ==
    /\ RunEndsComplete
    /\ [](LET Exited == {w \in Workers : pc[w] = "done"}
          IN
          /\ hist.pills <= Cardinality(Exited)
          /\ running => hist.pills = Cardinality(Exited)
          /\ Len(request_queue) >= NUM_CONNECTIONS - hist.pills
          /\ AllExited => request_queue = [i \in 1..(NUM_CONNECTIONS - hist.pills) |-> None])

C16_Witness ==
    /\ AllExited
    /\ mainpc = "report"
    /\ stats.requests_completed = TOTAL_REQUESTS
    /\ stats.requests_failed = 0
    /\ hist.pills < NUM_CONNECTIONS
    /\ request_queue # <<>>

\* C17: a worker leaves its loop only by dequeuing a None or by reading running
\* as False.  A step in which a worker meets a failure (connect, socket, send,
\* response) leaves that worker in its loop, leaves running and main() alone,
\* changes no other worker's socket, counters, task or position, and changes the
\* statistics only in requests_failed or connection_errors; a worker still in
\* its loop always has a next step.
C17_FailuresStopNothing ==
    /\ [][\A w \in Workers :
            pc'[w] # pc[w] =>
                /\ pc'[w] = "done" =>
                      \/ pc[w] = "get" /\ Head(request_queue) = None
                      \/ pc[w] = "head" /\ ~running
                /\ (\/ stats'.requests_failed # stats.requests_failed
                    \/ stats'.connection_errors # stats.connection_errors) =>
                      /\ pc'[w] \in {"head", "requeue"}
                      /\ running' = running
                      /\ mainpc' = mainpc
                      /\ request_queue' = request_queue
                      /\ \A v \in Workers \ {w} :
                            /\ sock'[v] = sock[v]
                            /\ requests_on_conn'[v] = requests_on_conn[v]
                            /\ served'[v] = served[v]
                            /\ task'[v] = task[v]
                            /\ pc'[v] = pc[v]
                      /\ \/ stats' = [stats EXCEPT !.requests_failed = @ + 1]
                         \/ stats' = [stats EXCEPT !.connection_errors = @ + 1]]_vars
    /\ [](\A w \in Workers : pc[w] # "done" => ENABLED WorkerStep(w))

C17_Witness ==
    /\ running
    /\ \A w \in Workers : pc[w] # "done"
    /\ stats.requests_failed > 0
    /\ stats.connection_errors > 0
    /\ \E v, w \in Workers :
          /\ pc[w] = "head" /\ sock[w] = "none" /\ task[w] = None
          /\ pc[v] = "recv" /\ sock[v] = "open" /\ task[v] # None

\* C18: if the pre-flight check fails, the process exits with a non-zero status
\* with nothing queued and no worker started; workers are started only after a
\* connect of the check has succeeded.
C18_FailedProbeExitsNonZero ==
    /\ (ppc = "exited" /\ ~probed) =>
          /\ exit_code # 0
          /\ request_queue = <<>>
          /\ started = 0
    /\ ~probed => ppc \in {"probe", "exited"}
    /\ started > 0 => probed

\* C19: what the monitor and the final report use is a copy of one state of the
\* statistics: the values the monitor holds until it prints, and the values the
\* final report has printed, are those the dictionary had inside their
\* `with stats_lock:` block, whatever the workers record afterwards.
C19_ReadersUseOneState ==
    LET ValuesOf(st, window) ==
            [completed |-> st.requests_completed, failed |-> st.requests_failed,
             bytes_recv |-> st.bytes_received, bytes_sent |-> st.bytes_sent,
             latencies |-> LastN(st.latencies, window)]
    IN /\ mpc = "read" => mon = ValuesOf(mon_seen, MONITOR_WINDOW)
       /\ rpc = "printed" => printed = ValuesOf(report_seen, Len(report_seen.latencies))

\* C20: every percentile a reporter shows for n samples is
\* sorted_samples[min(floor(p * n), n - 1)], without interpolation: so are the
\* maximum taken for small n and the p50 that statistics.median computes.
C20_PercentilesAreNearestRank ==
    LET n == Len(samples)
        NearestRank(hundredths) == Sorted(samples)[Min((hundredths * n) \div 100, n - 1) + 1]
    IN /\ reported.p50.shown => reported.p50.value = NearestRank(50)
       /\ reported.p90.shown => reported.p90.value = NearestRank(90)
       /\ reported.p95.shown => reported.p95.value = NearestRank(95)
       /\ reported.p99.shown => reported.p99.value = NearestRank(99)

\* C21: the statistics a report shows are in order, min <= p50 <= p90 <= p95 <=
\* p99 <= max, and every index int(n * p) it reads lies in 0..n-1.
C21_PercentilesMonotonic ==
    LET order == <<reported.min, reported.p50, reported.p90, reported.p95, reported.p99,
                   reported.max>>
        n == Len(samples)
    IN /\ \A i, j \in 1..Len(order) :
             (i < j /\ order[i].shown /\ order[j].shown) => order[i].value <= order[j].value
       /\ \A hundredths \in {50, 90, 95, 99} : Rank(n, hundredths) \in 0..(n - 1)

C21_Witness ==
    /\ reporter = "latency_stats"
    /\ Len(samples) > 100
    /\ reported.min.value < reported.p99.value
    /\ reported.p50.value < reported.p99.value
    /\ reported.p99.value = reported.max.value

\* C22: the warning of an interval is printed exactly when the interval's
\* failure rate failed / (completed + failed) exceeds 10%, and the loop goes on
\* after it.
C22_WarningIffRateOverTenPercent ==
    sustained.interval.warning <=>
        /\ sustained.interval.completed + sustained.interval.failed > 0
        /\ 10 * sustained.interval.failed >
              sustained.interval.completed + sustained.interval.failed

\* C23: a call stress_test(concurrency, num_requests) returns with every worker
\* ended, num_requests request attempts made, completed + failed = num_requests,
\* and each token of the queue popped once; so too when there are more workers
\* than tokens.
C23_LevelMakesEveryRequestOnce ==
    /\ [][staircase'.level > staircase.level /\ staircase.level > 0 =>
            LET n == Levels[staircase.level].num_requests
            IN /\ staircase.attempts = n
               /\ staircase.result.completed + staircase.result.failed = n
               /\ {staircase.taken[i] : i \in DOMAIN staircase.taken} = 0..(n - 1)
               /\ level_queue = 0
               /\ \A w \in Workers : spc[w] \in {"unstarted", "done"}]_vars
    /\ [](/\ \A i, j \in DOMAIN staircase.taken :
                staircase.taken[i] = staircase.taken[j] => i = j
          /\ staircase.result.completed + staircase.result.failed <= staircase.attempts
          /\ staircase.attempts <= Len(staircase.taken))

C23_Witness ==
    /\ staircase.level = Len(Levels) + 1
    /\ Levels[1].concurrency > Levels[1].num_requests
    /\ staircase.attempts = REQUESTS_PER_LEVEL
    /\ staircase.result.completed > 0
    /\ staircase.result.failed > 0

\* C24: the calls of stress_test follow one another: when the first thread of a
\* call is started no worker of an earlier call is alive, a thread is started
\* only in a place no living worker has, the results are stored in list order,
\* the warm-up's not among them, each with the outcomes of its own call only,
\* and a stored result is not changed afterwards.
C24_LevelsRunOneAfterAnother ==
    /\ [][/\ \A w \in Workers :
                (spc'[w] # spc[w] /\ staircase'.started > staircase.started) =>
                    /\ spc[w] \in {"unstarted", "done"}
                    /\ staircase.started = 0 =>
                          \A v \in Workers : spc[v] \in {"unstarted", "done"}
          /\ \A k \in DOMAIN staircase.results :
                /\ k \in DOMAIN staircase'.results
                /\ staircase'.results[k] = staircase.results[k]]_vars
    /\ [](\A k \in DOMAIN staircase.results :
            /\ k < staircase.level - 1
            /\ staircase.results[k].concurrency = Levels[k + 1].concurrency
            /\ staircase.results[k].completed + staircase.results[k].failed
                  = Levels[k + 1].num_requests)

C24_Witness ==
    /\ staircase.level = Len(Levels)
    /\ Len(staircase.results) = 1
    /\ staircase.results[1].failed > 0
    /\ staircase.started = 1
    /\ spc[1] = "request"
    /\ staircase.result.completed > 0

C26_WindowsArePureSelections ==
    /\ [][spike'.data # spike.data =>
            \E success \in BOOLEAN :
                spike'.data = Append(spike.data, [t |-> spike.now, success |-> success])]_vars
    /\ [][spike'.windows # spike.windows \/ (spike.pc = "report" /\ spike'.pc = "done") =>
            LET Selected(window, start, end) ==
                    LET kept == {i \in DOMAIN spike.data :
                                    start <= spike.data[i].t /\ spike.data[i].t <= end}
                    IN /\ Len(window) = Cardinality(kept)
                       /\ \A i \in kept :
                             window[Cardinality({j \in kept : j <= i})] = spike.data[i]
            IN /\ spike'.data = spike.data
               /\ Selected(spike'.windows.baseline, spike.baseline_start, spike.baseline_end)
               /\ Selected(spike'.windows.spike, spike.spike_start, spike.spike_end)
               /\ Selected(spike'.windows.recovery, spike.recovery_start, spike.recovery_end)]_vars

C26_Witness ==
    /\ spike.pc = "done"
    /\ Len(spike.data) = MaxSamples
    /\ Len(spike.windows.baseline) = 1
    /\ spike.windows.baseline[1].t = spike.baseline_end
    /\ Len(spike.windows.spike) + Len(spike.windows.recovery) < MaxSamples - 1

\* C27: every pass of monitor() takes the numerator of its rate as the
\* completions read in this pass minus those read in the pass before, sets
\* last_completed to the value read, and so the numerators printed so far add
\* up to requests_completed as the last pass read it.
C27_RateCountsEachCompletionOnce ==
    [][mpc = "read" /\ mpc' # "read" =>
          /\ last'.numerator = mon_seen.requests_completed - last.completed
          /\ last'.completed = mon_seen.requests_completed
          /\ last'.sum = mon_seen.requests_completed
          /\ last.sum = last.completed]_vars

C27_Witness ==
    /\ mpc # "read"
    /\ last.numerator >= 1
    /\ last.completed > last.numerator
    /\ last.sum = TOTAL_REQUESTS

\* C28: when the runner reports, its workers together have made num_requests
\* attempts: the progress counter is num_requests and the successes and the
\* errors add up to num_requests.
C28_RunnerPerformsRequestedTotal ==
    mix.pc = "report" =>
        /\ mix.progress = mix.num_requests
        /\ mix.count + mix.errors = mix.num_requests

\* C29: create_request gives a POST exactly for a task with a body, an empty
\* one included, and a GET for a task without; the Content-Length header,
\* with the length of the body, and the bytes of the body are there exactly
\* in a POST; the Connection header is the mode asked for.
C29_PostIffBodyPresent ==
    \A i \in 1..Len(built) :
        LET call == built[i]
            req == call.request
        IN /\ (req.method = "POST") = call.body.present
           /\ (req.method = "GET") = ~call.body.present
           /\ req.content_length.present = (req.method = "POST")
           /\ req.content_length.present => req.content_length.value = call.body.len
           /\ req.body_len = (IF req.method = "POST" THEN call.body.len ELSE 0)
           /\ req.connection = (IF call.keep_alive THEN "keep-alive" ELSE "close")

\* C30: a fixed-count run comes to its end: whatever connects, sends and
\* responses fail, with every worker and main() scheduled and no Ctrl-C, the
\* wait loop of main() sees requests_completed + requests_failed reach
\* TOTAL_REQUESTS and main() goes on to the final report.
C30_FixedCountRunTerminates == <>(mainpc = "report")

\* C31: a worker takes a None off the queue only when no task is left in the
\* queue, so that when the last worker has gone on a None the queue holds no
\* task.
C31_NoSignalTakenBeforeTask ==
    [][\A w \in Workers :
          (pc[w] = "get" /\ pc'[w] = "done") => QueuedTasks = {}]_vars

\* C32: in every state between two critical sections requests_completed is
\* the sum of the counts of the per-endpoint table and bytes_received is the
\* sum of its bytes.
C32_TotalsMatchEndpointTable ==
    LET Sum[S \in SUBSET EndpointNames] ==
            IF S = {} THEN [count |-> 0, bytes |-> 0]
            ELSE LET e == CHOOSE x \in S : TRUE
                 IN [count |-> stats.per_endpoint[e].count + Sum[S \ {e}].count,
                     bytes |-> stats.per_endpoint[e].bytes + Sum[S \ {e}].bytes]
    IN /\ stats.requests_completed = Sum[EndpointNames].count
       /\ stats.bytes_received = Sum[EndpointNames].bytes

C32_Witness ==
    /\ \A e \in EndpointNames : stats.per_endpoint[e].count > 0
    /\ \E e \in EndpointNames : stats.per_endpoint[e].bytes > 0
    /\ stats.bytes_received < stats.requests_completed
    /\ \E w \in Workers : pc[w] = "recv"

\* C33: the latency store holds one sample for each success up to its
\* capacity, min(requests_completed, capacity) in all, and a step that counts
\* a failure leaves the store as it is.
C33_SamplesAreSuccesses ==
    /\ [](Len(stats.latencies) = Min(stats.requests_completed, LATENCY_CAP))
    /\ [][stats'.requests_failed # stats.requests_failed =>
             stats'.latencies = stats.latencies]_vars

C33_Witness ==
    /\ stats.requests_failed > 0
    /\ stats.requests_completed > 0
    /\ Len(stats.latencies) = stats.requests_completed
    /\ Len(stats.latencies) < LATENCY_CAP

\* C34: requests_completed <= requests_sent <= the number of tasks taken off
\* the queue so far; a sendall that returns adds 1 to requests_sent and the
\* length of the request to bytes_sent, a sendall that raises adds 1 to
\* requests_failed and nothing to requests_sent and bytes_sent; nothing else
\* changes bytes_sent.
C34_SentCountsReturnedSends ==
    /\ [](/\ stats.requests_completed <= stats.requests_sent
          /\ stats.requests_sent <= hist.dequeued)
    /\ [][/\ \A w \in Workers :
                (pc[w] = "send" /\ pc'[w] # "send") =>
                    IF pc'[w] = "recv"
                    THEN /\ stats'.requests_sent = stats.requests_sent + 1
                         /\ stats'.bytes_sent =
                                stats.bytes_sent + RequestLen(task[w].endpoint, task[w].body)
                         /\ stats'.requests_failed = stats.requests_failed
                    ELSE /\ stats'.requests_failed = stats.requests_failed + 1
                         /\ stats'.requests_sent = stats.requests_sent
                         /\ stats'.bytes_sent = stats.bytes_sent
          /\ (stats'.bytes_sent # stats.bytes_sent \/ stats'.requests_sent # stats.requests_sent) =>
                \E w \in Workers : pc[w] = "send" /\ pc'[w] = "recv"]_vars

C34_Witness ==
    /\ stats.requests_failed > stats.requests_sent - stats.requests_completed
    /\ stats.requests_completed > 0
    /\ stats.requests_sent > stats.requests_completed
    /\ \A w \in Workers : pc[w] # "recv"

\* C35: the totals of the final report of the sustained run count every
\* outcome the workers recorded: total_completed + total_failed is the number
\* of calls of IntervalStats.record.
C35_FinalReportCountsEveryRecord ==
    sustained.pc = "reported" =>
        sustained.total_completed + sustained.total_failed = sustained.recorded

\* C36: at the report of the spike test the samples of the baseline, spike
\* and recovery windows are together the samples recorded from the start of
\* the baseline to the end of the recovery window, each in one window: the
\* three counts add up to the number of those samples.
C36_WindowsPartitionTheRun ==
    [][(spike.pc = "report" /\ spike'.pc = "done") =>
          Len(spike'.windows.baseline) + Len(spike'.windows.spike)
                + Len(spike'.windows.recovery)
             = Len(GetWindow(spike.data, spike.baseline_start, spike.recovery_end))]_vars

\* C37: on a keep-alive connection a success is recorded when the whole
\* response of the request just sent has been read, and a request is sent
\* only when no byte of an earlier response is unread.
C37_RequestsAreSequential ==
    [][/\ (keepalive.pc = "recv" /\ keepalive'.completed = keepalive.completed + 1) => keepalive'.unread = 0
       /\ (keepalive.pc = "send" /\ keepalive'.pc = "recv") => keepalive.unread = 0]_vars

\* C38: in the memory stress run completed + failed never passes
\* TOTAL_REQUESTS, and completed never passes NUM_CONNECTIONS *
\* REQUESTS_PER_CONNECTION.
C38_ProgressNeverPassesTarget ==
    LET target == NUM_CONNECTIONS * REQUESTS_PER_CONNECTION
    IN /\ memory.completed + memory.failed <= target
       /\ memory.completed <= target

\* C39: once the table is built it holds each endpoint of ENDPOINTS exactly
\* weight times and its length is the sum of the weights, and of the equally
\* likely outcomes of the two draws main() makes for a task, the share that
\* gives a task for an endpoint is weight / sum of the weights.
C39_TasksFollowTheWeights ==
    LET table == workload.WEIGHTED_ENDPOINTS
        SumWeights[k \in 0..Len(workload.ENDPOINTS)] ==
            IF k = 0 THEN 0 ELSE workload.ENDPOINTS[k].weight + SumWeights[k - 1]
        total == SumWeights[Len(workload.ENDPOINTS)]
        draws == (1..Len(table)) \X (0..9)
    IN workload.pc = "main" =>
          /\ Len(table) = total
          /\ \A k \in 1..Len(workload.ENDPOINTS) :
                LET e == workload.ENDPOINTS[k] IN
                /\ Cardinality({i \in 1..Len(table) : table[i] = e.endpoint}) = e.weight
                /\ Cardinality({d \in draws : ChosenEndpoint(table, d[1], d[2]) = e.endpoint})
                       * total = e.weight * Cardinality(draws)
          /\ \A d \in draws :
                \E k \in 1..Len(workload.ENDPOINTS) :
                    ChosenEndpoint(table, d[1], d[2]) = workload.ENDPOINTS[k].endpoint

====
